---- MODULE Spec2Model ----
(***************************************************************************)
(* State/history engine of the Fraction Bars widget: the StateManager of   *)
(* src/fraction-bars/src/components/StateManager.ts (reducer, bounded      *)
(* action log, undo/redo, batch window, subscribers, storage).             *)
(*                                                                         *)
(* JavaScript objects are functions from field names to values, so that    *)
(* the object spread {...a, ...b} is Merge(a, b).  An absent optional      *)
(* field and a field holding undefined are both the value Undefined.       *)
(* Bar ids are numbers: generateId() is modelled by a counter of the ids   *)
(* generated so far: every call yields an id never produced before.        *)
(***************************************************************************)
EXTENDS Integers, Sequences, FiniteSets, TLC

VARIABLES
    state,            \* StateManager.state : AppState
    history,          \* StateManager.history : Action[]
    future,           \* StateManager.future : Action[]
    subscribers,      \* StateManager.subscribers : Set<StateChangeCallback>
    batchOperation,   \* StateManager.batchOperation
    batchedActions,   \* StateManager.batchedActions
    idCounter,        \* number of ids generateId() has produced
    now,              \* Date.now()
    depth,            \* number of batch() callbacks on the call stack
    localStore,       \* localStorage item 'fractionBarsState' (<<>> if absent)
    indexedStore,     \* IndexedDB record 'current' (<<>> if absent)
    loadPending,      \* a loadState() call is awaiting IndexedDB
    ctorState,        \* history variable: the state the constructor built
    lastOp,           \* history variable: the API call that ran last
    notified,         \* history variable: states delivered to each callback by the last call
    preState,         \* history variable: state before the last action the last call executed
    preFuture,        \* history variable: length of future before the last call
    executed,         \* history variable: the actions executed so far, in order
    undone,           \* history variable: undo() has popped an entry
    rt,               \* history variable: progress of a dispatch^N undo^N redo^N run
    activeTouches,    \* TouchInteractionManager.activeTouches : Map<number, TouchPoint>
    gestureState,     \* TouchInteractionManager.gestureState
    emitted,          \* intents the last pointer event handed to the callbacks
    callbacks,        \* TouchInteractionManager.onBarSelect, onBarSplit, onBarJoin, onBarDrag
    focusedBarIndex,  \* KeyboardNavigationManager.focusedBarIndex
    saveTimeouts,     \* due times of the pending window.setTimeout timers of scheduleSave
    timeout,          \* debounce's closure variable: the timer it created last (<<>> if none)
    autoSaveInterval  \* StateManager.autoSaveInterval: next due time (<<>> if cleared)

progVars == <<state, history, future, subscribers, batchOperation, batchedActions,
              idCounter, now, depth, localStore, indexedStore, loadPending>>
histVars == <<ctorState, lastOp, notified, preState, preFuture>>
auxVars == <<executed, undone, rt>>
gestVars == <<activeTouches, gestureState, emitted, callbacks, focusedBarIndex>>
saveVars == <<saveTimeouts, timeout, autoSaveInterval>>
vars == <<progVars, histVars, auxVars, gestVars, saveVars>>

----------------------------------------------------------------------------
(* Bounds of the model *)

MaxLog == 2           \* actions held by history, future and the batch buffer together
MaxId == 3            \* ids generateId() may produce in one behaviour
MaxDepth == 2         \* nesting of batch() callbacks
MaxRoundTrip == 3     \* N of the dispatch^N undo^N redo^N runs
MaxLogOps == 102      \* dispatches of the log-bound runs
MaxTicks == 1         \* steps of 300 ms the clock of the pointer events takes
MaxClock == 3         \* half seconds during which the user acts between timers
MaxIntervals == 1     \* periods of the auto-save interval a behaviour covers

----------------------------------------------------------------------------
(* Values *)

Undefined == 0
Subs == {"cb1", "cb2"}

Merge(a, b) ==
    [k \in (DOMAIN a) \cup (DOMAIN b) |-> IF k \in DOMAIN b THEN b[k] ELSE a[k]]

FilterBars(bars, ids) ==
    SelectSeq(bars, LAMBDA bar : bar.id \notin ids)

maxHistorySize == 100

defaultState ==
    [version |-> "1.0.0",
     bars |-> <<>>,
     currentTool |-> "bar",
     selectedBarIds |-> <<>>,
     unitBarId |-> Undefined,
     settings |-> [defaultBarColor |-> "#FFFF66",
                   defaultBarHeight |-> 60,
                   showLabels |-> TRUE,
                   snapToGrid |-> FALSE,
                   gridSize |-> 10]]

createInitialState(initialState) == Merge(defaultState, initialState)

NoPartial == [k \in {} |-> Undefined]

----------------------------------------------------------------------------
(* The reducer.  live is this.state at the time of the call (createBar     *)
(* reads the defaults from it), counter the number of ids generated so far *)

generateId(counter) == counter + 1

createBar(barData, live, counter) ==
    Merge([id |-> generateId(counter),
           x |-> 0,
           y |-> 0,
           width |-> 100,
           height |-> live.settings.defaultBarHeight,
           color |-> live.settings.defaultBarColor,
           isSelected |-> FALSE,
           isUnitBar |-> FALSE,
           splits |-> <<>>],
          barData)

handleSplitBar(s, payload) ==
    [s EXCEPT !.bars =
        [i \in 1..Len(s.bars) |->
            LET bar == s.bars[i]
            IN IF bar.id = payload.barId
               THEN Merge(bar, [splits |-> payload.splits]) ELSE bar]]

handleJoinBars(s, payload) ==
    LET sourceIds == {payload.sourceIds[i] : i \in 1..Len(payload.sourceIds)}
    IN [s EXCEPT
          !.bars = Append(FilterBars(s.bars, sourceIds), payload.resultBar),
          !.selectedBarIds = SelectSeq(s.selectedBarIds, LAMBDA id : id \notin sourceIds)]

(* a reducer whose SET_UNIT_BAR leaves the flag of the other bars alone *)
reducerStickyUnit(s, action, live, counter) ==
    CASE action.type = "ADD_BAR" ->
           [s EXCEPT !.bars = Append(s.bars, createBar(action.payload, live, counter))]
      [] action.type = "REMOVE_BAR" ->
           [s EXCEPT
              !.bars = FilterBars(s.bars, {action.payload.id}),
              !.selectedBarIds = SelectSeq(s.selectedBarIds, LAMBDA id : id # action.payload.id),
              !.unitBarId = IF s.unitBarId = action.payload.id THEN Undefined ELSE s.unitBarId]
      [] action.type = "MODIFY_BAR" ->
           [s EXCEPT !.bars =
               [i \in 1..Len(s.bars) |->
                   LET bar == s.bars[i]
                   IN IF bar.id = action.payload.id
                      THEN Merge(bar, action.payload.changes) ELSE bar]]
      [] action.type = "SPLIT_BAR" -> handleSplitBar(s, action.payload)
      [] action.type = "JOIN_BARS" -> handleJoinBars(s, action.payload)
      [] action.type = "SET_UNIT_BAR" ->
           [s EXCEPT
              !.unitBarId = action.payload.id,
              !.bars = [i \in 1..Len(s.bars) |->
                           LET bar == s.bars[i]
                           IN IF bar.id = action.payload.id
                              THEN Merge(bar, [isUnitBar |-> TRUE]) ELSE bar]]
      [] action.type = "CHANGE_TOOL" ->
           [s EXCEPT !.currentTool = action.payload.tool]
      [] action.type = "UPDATE_SETTINGS" ->
           [s EXCEPT !.settings = Merge(s.settings, action.payload)]
      [] OTHER -> s

(* a reducer whose REMOVE_BAR leaves unitBarId alone *)
reducerRemoveKeepsUnit(s, action, live, counter) ==
    CASE action.type = "ADD_BAR" ->
           [s EXCEPT !.bars = Append(s.bars, createBar(action.payload, live, counter))]
      [] action.type = "REMOVE_BAR" ->
           [s EXCEPT
              !.bars = FilterBars(s.bars, {action.payload.id}),
              !.selectedBarIds = SelectSeq(s.selectedBarIds, LAMBDA id : id # action.payload.id)]
      [] action.type = "MODIFY_BAR" ->
           [s EXCEPT !.bars =
               [i \in 1..Len(s.bars) |->
                   LET bar == s.bars[i]
                   IN IF bar.id = action.payload.id
                      THEN Merge(bar, action.payload.changes) ELSE bar]]
      [] action.type = "SPLIT_BAR" -> handleSplitBar(s, action.payload)
      [] action.type = "JOIN_BARS" -> handleJoinBars(s, action.payload)
      [] action.type = "SET_UNIT_BAR" ->
           [s EXCEPT
              !.unitBarId = action.payload.id,
              !.bars = [i \in 1..Len(s.bars) |->
                           LET bar == s.bars[i]
                           IN Merge(bar, [isUnitBar |-> (bar.id = action.payload.id)])]]
      [] action.type = "CHANGE_TOOL" ->
           [s EXCEPT !.currentTool = action.payload.tool]
      [] action.type = "UPDATE_SETTINGS" ->
           [s EXCEPT !.settings = Merge(s.settings, action.payload)]
      [] OTHER -> s

reducer(s, action, live, counter) ==
    CASE action.type = "ADD_BAR" ->
           [s EXCEPT !.bars = Append(s.bars, createBar(action.payload, live, counter))]
      [] action.type = "REMOVE_BAR" ->
           [s EXCEPT
              !.bars = FilterBars(s.bars, {action.payload.id}),
              !.selectedBarIds = SelectSeq(s.selectedBarIds, LAMBDA id : id # action.payload.id),
              !.unitBarId = IF s.unitBarId = action.payload.id THEN Undefined ELSE s.unitBarId]
      [] action.type = "MODIFY_BAR" ->
           [s EXCEPT !.bars =
               [i \in 1..Len(s.bars) |->
                   LET bar == s.bars[i]
                   IN IF bar.id = action.payload.id
                      THEN Merge(bar, action.payload.changes) ELSE bar]]
      [] action.type = "SPLIT_BAR" -> handleSplitBar(s, action.payload)
      [] action.type = "JOIN_BARS" -> handleJoinBars(s, action.payload)
      [] action.type = "SET_UNIT_BAR" ->
           [s EXCEPT
              !.unitBarId = action.payload.id,
              !.bars = [i \in 1..Len(s.bars) |->
                           LET bar == s.bars[i]
                           IN Merge(bar, [isUnitBar |-> (bar.id = action.payload.id)])]]
      [] action.type = "CHANGE_TOOL" ->
           [s EXCEPT !.currentTool = action.payload.tool]
      [] action.type = "UPDATE_SETTINGS" ->
           [s EXCEPT !.settings = Merge(s.settings, action.payload)]
      [] OTHER -> s

(* ids the reducer draws from generateId() while reducing the action *)
IdsDrawn(action) == IF action.type = "ADD_BAR" THEN 1 ELSE 0

----------------------------------------------------------------------------
(* The manager's methods, as functions of the manager m = [state, history, *)
(* future, batchOperation, batchedActions, idCounter, out]; out collects   *)
(* the states notifySubscribers() delivers during the call, and scheduled  *)
(* tells whether the call reached scheduleSave().                          *)

(* updateState that stores the state and leaves notifySubscribers() out *)
updateStateSilently(m, newState) ==
    [m EXCEPT !.state = newState, !.scheduled = TRUE]

updateState(m, newState) ==
    [m EXCEPT !.state = newState, !.out = Append(m.out, newState), !.scheduled = TRUE]

(* executeAction that keeps the future buffer *)
executeActionKeepingFuture(m, action) ==
    updateState([m EXCEPT !.history = Append(m.history, action),
                          !.idCounter = m.idCounter + IdsDrawn(action)],
                reducer(m.state, action, m.state, m.idCounter))

(* executeAction that never evicts from the log *)
executeActionUnbounded(m, action) ==
    updateState([m EXCEPT !.future = <<>>,
                          !.history = Append(m.history, action),
                          !.idCounter = m.idCounter + IdsDrawn(action)],
                reducer(m.state, action, m.state, m.idCounter))

(* executeAction that returns early when the reducer changes nothing *)
executeActionSkippingNoOps(m, action) ==
    LET cleared == IF Len(m.future) > 0 THEN <<>> ELSE m.future
        pushed == Append(m.history, action)
        kept == IF Len(pushed) > maxHistorySize THEN Tail(pushed) ELSE pushed
        newState == reducer(m.state, action, m.state, m.idCounter)
    IN IF newState = m.state THEN m
       ELSE updateState([m EXCEPT !.future = cleared,
                                  !.history = kept,
                                  !.idCounter = m.idCounter + IdsDrawn(action)],
                        newState)

(* executeAction that evicts with pop(): the newest entry, not the oldest *)
executeActionEvictingNewest(m, action) ==
    LET cleared == IF Len(m.future) > 0 THEN <<>> ELSE m.future
        pushed == Append(m.history, action)
        kept == IF Len(pushed) > maxHistorySize
                THEN SubSeq(pushed, 1, Len(pushed) - 1) ELSE pushed
        newState == reducer(m.state, action, m.state, m.idCounter)
    IN updateState([m EXCEPT !.future = cleared,
                             !.history = kept,
                             !.idCounter = m.idCounter + IdsDrawn(action)],
                   newState)

executeAction(m, action) ==
    LET cleared == IF Len(m.future) > 0 THEN <<>> ELSE m.future
        pushed == Append(m.history, action)
        kept == IF Len(pushed) > maxHistorySize THEN Tail(pushed) ELSE pushed
        newState == reducer(m.state, action, m.state, m.idCounter)
    IN updateState([m EXCEPT !.future = cleared,
                             !.history = kept,
                             !.idCounter = m.idCounter + IdsDrawn(action)],
                   newState)

(* this.history.forEach(action => newState = this.reducer(newState, action)) *)
(* over log[lo..hi].  The range is halved, and the left half is reduced    *)
(* before the right half is entered, to keep the evaluation shallow.       *)
RECURSIVE ReplayFrom(_, _, _, _, _, _)
ReplayFrom(s, log, lo, hi, live, counter) ==
    IF lo > hi THEN [state |-> s, idCounter |-> counter]
    ELSE IF lo = hi
         THEN [state |-> reducer(s, log[lo], live, counter),
               idCounter |-> counter + IdsDrawn(log[lo])]
         ELSE LET mid == (lo + hi) \div 2
                  left == ReplayFrom(s, log, lo, mid, live, counter)
              IN IF left.idCounter >= counter
                 THEN ReplayFrom(left.state, log, mid + 1, hi, live, left.idCounter)
                 ELSE left

Front(seq) == SubSeq(seq, 1, Len(seq) - 1)
Last(seq) == seq[Len(seq)]

(* undo that resets this.state before the replay, so that createBar reads  *)
(* the default settings                                                    *)
undoFromResetState(m) ==
    IF Len(m.history) = 0 THEN m
    ELSE LET action == Last(m.history)
             rest == Front(m.history)
             rebuilt == ReplayFrom(createInitialState(NoPartial), rest, 1, Len(rest),
                                   createInitialState(NoPartial), m.idCounter)
         IN updateState([m EXCEPT !.history = rest,
                                  !.future = Append(m.future, action),
                                  !.idCounter = rebuilt.idCounter],
                        rebuilt.state)

undo(m) ==
    IF Len(m.history) = 0 THEN m
    ELSE LET action == Last(m.history)
             rest == Front(m.history)
             rebuilt == ReplayFrom(createInitialState(NoPartial), rest, 1, Len(rest),
                                   m.state, m.idCounter)
         IN updateState([m EXCEPT !.history = rest,
                                  !.future = Append(m.future, action),
                                  !.idCounter = rebuilt.idCounter],
                        rebuilt.state)

redo(m) ==
    IF Len(m.future) = 0 THEN m
    ELSE executeAction([m EXCEPT !.future = Front(m.future)], Last(m.future))

RECURSIVE ExecuteAll(_, _, _)
ExecuteAll(m, actions, i) ==
    IF i > Len(actions) THEN m
    ELSE ExecuteAll(executeAction(m, actions[i]), actions, i + 1)

dispatch(m, action, time) ==
    LET timestampedAction == Merge(action, [timestamp |-> time])
    IN IF m.batchOperation
       THEN [m EXCEPT !.batchedActions = Append(m.batchedActions, timestampedAction)]
       ELSE executeAction(m, timestampedAction)

(* a debounce that sets its timer and never clears the one before *)
debounceWithoutClear(timers, wait, time) ==
    [pending |-> timers.pending \cup {time + wait},
     timeout |-> <<time + wait>>]

(* debounce(func, wait): the function it returns, called at Date.now() =   *)
(* time.  timers = [pending, timeout]: pending holds the due times of the  *)
(* window timers not yet run or cleared, timeout is the closure variable.  *)
(* A timer is named by its due time.                                       *)
debounce(timers, wait, time) ==
    [pending |-> (timers.pending \ {timers.timeout[i] : i \in 1..Len(timers.timeout)})
                   \cup {time + wait},
     timeout |-> <<time + wait>>]

scheduleSave(timers, time) == debounce(timers, 1000, time)

(* setupAutoSave() at Date.now() = time: the interval's first due time *)
setupAutoSave(time) == <<time + 30000>>

(* a batch() that keeps what the buffer holds when it opens the window *)
batchOpenKeepingBuffer(m) ==
    [m EXCEPT !.batchOperation = TRUE]

(* batch(callback) up to the call of callback *)
batchOpen(m) ==
    [m EXCEPT !.batchOperation = TRUE, !.batchedActions = <<>>]

(* batch(callback) from the return of callback on *)
batchClose(m) ==
    LET flushed == IF Len(m.batchedActions) > 0
                   THEN ExecuteAll(m, m.batchedActions, 1) ELSE m
    IN [flushed EXCEPT !.batchOperation = FALSE, !.batchedActions = <<>>]

----------------------------------------------------------------------------
(* Requests a caller builds from the state it sees *)

BarIds(s) == {s.bars[i].id : i \in 1..Len(s.bars)}
BarOf(s, id) == s.bars[CHOOSE i \in 1..Len(s.bars) : s.bars[i].id = id]

(* the two halves calculateSplits returns for a vertical split at relativeX = 40 *)
HalfSplits(bar) ==
    <<[x |-> 0, y |-> 0, width |-> 40, height |-> bar.height, color |-> bar.color],
      [x |-> 40, y |-> 0, width |-> bar.width - 40, height |-> bar.height, color |-> bar.color]>>

Min(a, b) == IF a < b THEN a ELSE b
Max(a, b) == IF a > b THEN a ELSE b

createJoinedBar(bar1, bar2, counter) ==
    LET x == Min(bar1.x, bar2.x)
        y == Min(bar1.y, bar2.y)
    IN [id |-> generateId(counter),
        x |-> x,
        y |-> y,
        width |-> Max(bar1.x + bar1.width, bar2.x + bar2.width) - x,
        height |-> Max(bar1.y + bar1.height, bar2.y + bar2.height) - y,
        color |-> bar1.color,
        isSelected |-> TRUE,
        isUnitBar |-> FALSE,
        splits |-> <<>>]

Act(type, payload) == [type |-> type, payload |-> payload]

AddRequests == {Act("ADD_BAR", [x |-> 0, y |-> 0, width |-> 100])}
RemoveRequests(s) == {Act("REMOVE_BAR", [id |-> id]) : id \in BarIds(s)}
ModifyRequests(s) ==
    {Act("MODIFY_BAR", [id |-> id, changes |-> [isSelected |-> ~BarOf(s, id).isSelected]])
        : id \in BarIds(s)}
SplitRequests(s) ==
    {Act("SPLIT_BAR", [barId |-> id, splits |-> HalfSplits(BarOf(s, id))]) : id \in BarIds(s)}
JoinRequests(s, counter) ==
    {Act("JOIN_BARS", [sourceIds |-> <<s.bars[p[1]].id, s.bars[p[2]].id>>,
                       resultBar |-> createJoinedBar(s.bars[p[1]], s.bars[p[2]], counter)])
        : p \in {q \in (1..Len(s.bars)) \X (1..Len(s.bars)) : q[1] < q[2]}}
UnitRequests(s) == {Act("SET_UNIT_BAR", [id |-> id]) : id \in BarIds(s)}
ToolRequests == {Act("CHANGE_TOOL", [tool |-> "split"])}
SettingsRequests == {Act("UPDATE_SETTINGS", [defaultBarHeight |-> 80])}
UnknownRequests == {Act("RESET", [tool |-> "bar"])}

Requests(s, counter) ==
    AddRequests \cup RemoveRequests(s) \cup ModifyRequests(s) \cup SplitRequests(s)
    \cup JoinRequests(s, counter) \cup UnitRequests(s) \cup ToolRequests
    \cup SettingsRequests \cup UnknownRequests

(* ids the caller draws from its own generateId() while building the request *)
CallerIds(action) == IF action.type = "JOIN_BARS" THEN 1 ELSE 0

----------------------------------------------------------------------------
(* TouchInteractionManager, the gesture classifier.  The classifier is the *)
(* record tm = [activeTouches, gestureState, out]: out collects the        *)
(* intents handed to the callbacks onBarSelect, onBarSplit and onBarDrag.  *)
(* The Map activeTouches is the sequence of its values in insertion order. *)
(* A distance is kept by its square and an angle by its direction vector;  *)
(* an absent optional field is <<>>.                                       *)

DRAG_THRESHOLD == 10

Abs(n) == IF n < 0 THEN -n ELSE n

RECURSIVE GCD(_, _)
GCD(a, b) == IF b = 0 THEN a ELSE GCD(b, a % b)

MapHas(map, id) == \E i \in 1..Len(map) : map[i].id = id
MapGet(map, id) == map[CHOOSE i \in 1..Len(map) : map[i].id = id]
MapSet(map, id, v) ==
    IF MapHas(map, id)
    THEN [i \in 1..Len(map) |-> IF map[i].id = id THEN v ELSE map[i]]
    ELSE Append(map, v)
MapDelete(map, id) == SelectSeq(map, LAMBDA p : p.id # id)

TouchPoint(id, x, y, t) ==
    [id |-> id, startX |-> x, startY |-> y, currentX |-> x, currentY |-> y, startTime |-> t]

(* the square of getDistanceBetweenPoints *)
getDistanceBetweenPoints(x1, y1, x2, y2) ==
    (x2 - x1) * (x2 - x1) + (y2 - y1) * (y2 - y1)

(* Math.atan2(y2 - y1, x2 - x1) as the direction it names; atan2(0, 0) = 0 *)
getAngleBetweenPoints(x1, y1, x2, y2) ==
    LET dx == x2 - x1
        dy == y2 - y1
        g == GCD(Abs(dx), Abs(dy))
    IN IF g = 0 THEN <<1, 0>> ELSE <<dx \div g, dy \div g>>

(* a clamp that forgets the lower bound: Math.min(2, ..) alone *)
ClampScaleAbove(currentSq, startSq) ==
    LET g == GCD(currentSq, startSq)
    IN IF currentSq > 4 * startSq THEN [num |-> 4, den |-> 1]
       ELSE [num |-> currentSq \div g, den |-> startSq \div g]

(* Math.max(0.5, Math.min(2, currentDistance / startDistance)), squared *)
ClampScale(currentSq, startSq) ==
    LET g == GCD(currentSq, startSq)
    IN IF 4 * currentSq < startSq THEN [num |-> 1, den |-> 4]
       ELSE IF currentSq > 4 * startSq THEN [num |-> 4, den |-> 1]
       ELSE [num |-> currentSq \div g, den |-> startSq \div g]

initialGestureState ==
    [isActive |-> FALSE, startDistance |-> <<>>, startAngle |-> <<>>,
     scale |-> [num |-> 1, den |-> 1], rotation |-> [from |-> <<1, 0>>, to |-> <<1, 0>>]]

initializeMultiTouchGesture(tm) ==
    LET touches == tm.activeTouches
    IN [tm EXCEPT !.gestureState =
          [isActive |-> TRUE,
           startDistance |-> <<getDistanceBetweenPoints(
                                 touches[1].currentX, touches[1].currentY,
                                 touches[2].currentX, touches[2].currentY)>>,
           startAngle |-> <<getAngleBetweenPoints(
                              touches[1].currentX, touches[1].currentY,
                              touches[2].currentX, touches[2].currentY)>>,
           scale |-> [num |-> 1, den |-> 1],
           rotation |-> [from |-> <<1, 0>>, to |-> <<1, 0>>]]]

(* Math.abs(n) / Math.abs(d) > 2, with n / 0 = Infinity and 0 / 0 = NaN *)
RatioAbove2(n, d) == IF Abs(d) = 0 THEN Abs(n) > 0 ELSE Abs(n) > 2 * Abs(d)

Emit(tm, intent) == [tm EXCEPT !.out = Append(@, intent)]

(* a classifier that leaves the dead zone at the threshold itself *)
handleSingleTouchMoveAtThreshold(tm) ==
    LET touch == tm.activeTouches[1]
        deltaX == touch.currentX - touch.startX
        deltaY == touch.currentY - touch.startY
    IN IF Abs(deltaX) >= DRAG_THRESHOLD \/ Abs(deltaY) >= DRAG_THRESHOLD
       THEN IF RatioAbove2(deltaY, deltaX)
            THEN Emit(tm, [kind |-> "split", x |-> touch.currentX, y |-> touch.currentY,
                           isVertical |-> TRUE])
            ELSE IF RatioAbove2(deltaX, deltaY)
            THEN Emit(tm, [kind |-> "split", x |-> touch.currentX, y |-> touch.currentY,
                           isVertical |-> FALSE])
            ELSE Emit(tm, [kind |-> "drag", deltaX |-> deltaX, deltaY |-> deltaY])
       ELSE tm

handleSingleTouchMove(tm) ==
    LET touch == tm.activeTouches[1]
        deltaX == touch.currentX - touch.startX
        deltaY == touch.currentY - touch.startY
    IN IF Abs(deltaX) > DRAG_THRESHOLD \/ Abs(deltaY) > DRAG_THRESHOLD
       THEN IF RatioAbove2(deltaY, deltaX)
            THEN Emit(tm, [kind |-> "split", x |-> touch.currentX, y |-> touch.currentY,
                           isVertical |-> TRUE])
            ELSE IF RatioAbove2(deltaX, deltaY)
            THEN Emit(tm, [kind |-> "split", x |-> touch.currentX, y |-> touch.currentY,
                           isVertical |-> FALSE])
            ELSE Emit(tm, [kind |-> "drag", deltaX |-> deltaX, deltaY |-> deltaY])
       ELSE tm

handleMultiTouchMove(tm) ==
    LET touches == tm.activeTouches
        gs == tm.gestureState
        currentDistance == getDistanceBetweenPoints(
                               touches[1].currentX, touches[1].currentY,
                               touches[2].currentX, touches[2].currentY)
        currentAngle == getAngleBetweenPoints(
                            touches[1].currentX, touches[1].currentY,
                            touches[2].currentX, touches[2].currentY)
    IN IF gs.startDistance # <<>> /\ gs.startDistance # <<0>>
       THEN [tm EXCEPT !.gestureState =
               [gs EXCEPT
                  !.scale = ClampScale(currentDistance, gs.startDistance[1]),
                  !.rotation = IF gs.startAngle # <<>>
                               THEN [from |-> gs.startAngle[1], to |-> currentAngle]
                               ELSE @]]
       ELSE tm

(* changedTouches is a sequence of [identifier, clientX, clientY] *)
RECURSIVE StoreTouches(_, _, _, _)
StoreTouches(map, changedTouches, i, t) ==
    IF i > Len(changedTouches) THEN map
    ELSE LET touch == changedTouches[i]
         IN StoreTouches(MapSet(map, touch.identifier,
                                TouchPoint(touch.identifier, touch.clientX, touch.clientY, t)),
                         changedTouches, i + 1, t)

handleTouchStart(tm, changedTouches, t) ==
    LET stored == [tm EXCEPT !.activeTouches = StoreTouches(@, changedTouches, 1, t)]
    IN IF Len(stored.activeTouches) = 2 THEN initializeMultiTouchGesture(stored) ELSE stored

RECURSIVE UpdateTouches(_, _, _)
UpdateTouches(map, changedTouches, i) ==
    IF i > Len(changedTouches) THEN map
    ELSE LET touch == changedTouches[i]
             next == IF MapHas(map, touch.identifier)
                     THEN MapSet(map, touch.identifier,
                                 [MapGet(map, touch.identifier) EXCEPT
                                    !.currentX = touch.clientX, !.currentY = touch.clientY])
                     ELSE map
         IN UpdateTouches(next, changedTouches, i + 1)

handleTouchMove(tm, changedTouches) ==
    LET moved == [tm EXCEPT !.activeTouches = UpdateTouches(@, changedTouches, 1)]
    IN IF Len(moved.activeTouches) = 1 THEN handleSingleTouchMove(moved)
       ELSE IF Len(moved.activeTouches) = 2 THEN handleMultiTouchMove(moved)
       ELSE moved

RECURSIVE EndTouches(_, _, _, _)
EndTouches(tm, changedTouches, i, t) ==
    IF i > Len(changedTouches) THEN tm
    ELSE LET touch == changedTouches[i]
             next ==
               IF MapHas(tm.activeTouches, touch.identifier)
               THEN LET activeTouch == MapGet(tm.activeTouches, touch.identifier)
                        duration == t - activeTouch.startTime
                        distance == getDistanceBetweenPoints(
                                        activeTouch.startX, activeTouch.startY,
                                        activeTouch.currentX, activeTouch.currentY)
                        tapped == IF duration < 300 /\ distance < 10 * 10
                                  THEN Emit(tm, [kind |-> "select", x |-> touch.clientX,
                                                 y |-> touch.clientY])
                                  ELSE tm
                    IN [tapped EXCEPT !.activeTouches = MapDelete(@, touch.identifier)]
               ELSE tm
         IN EndTouches(next, changedTouches, i + 1, t)

handleTouchEnd(tm, changedTouches, t) ==
    LET ended == EndTouches(tm, changedTouches, 1, t)
    IN IF Len(ended.activeTouches) = 0
       THEN [ended EXCEPT !.gestureState.isActive = FALSE]
       ELSE ended

handleMouseDown(tm, event, t) ==
    IF Len(tm.activeTouches) > 0 THEN tm
    ELSE [tm EXCEPT !.activeTouches =
            MapSet(@, -1, TouchPoint(-1, event.clientX, event.clientY, t))]

handleMouseMove(tm, event) ==
    IF Len(tm.activeTouches) = 0 THEN tm
    ELSE IF MapHas(tm.activeTouches, -1)
    THEN handleSingleTouchMove(
            [tm EXCEPT !.activeTouches =
                MapSet(@, -1, [MapGet(@, -1) EXCEPT !.currentX = event.clientX,
                                                     !.currentY = event.clientY])])
    ELSE tm

handleMouseUp(tm, event, t) ==
    IF MapHas(tm.activeTouches, -1)
    THEN LET touch == MapGet(tm.activeTouches, -1)
             duration == t - touch.startTime
             distance == getDistanceBetweenPoints(touch.startX, touch.startY,
                                                  event.clientX, event.clientY)
             tapped == IF duration < 300 /\ distance < 10 * 10
                       THEN Emit(tm, [kind |-> "select", x |-> event.clientX,
                                      y |-> event.clientY])
                       ELSE tm
         IN [tapped EXCEPT !.activeTouches = MapDelete(@, -1)]
    ELSE tm

(* a property of an object literal: <<value>>, or <<>> if it has no such key *)
Field(obj, key) == IF key \in DOMAIN obj THEN <<obj[key]>> ELSE <<>>

(* setCallbacks({onSelect, onSplit, onJoin, onDrag}) *)
setCallbacks(arg) ==
    [onBarSelect |-> Field(arg, "onSelect"),
     onBarSplit |-> Field(arg, "onSplit"),
     onBarJoin |-> Field(arg, "onJoin"),
     onBarDrag |-> Field(arg, "onDrag")]

----------------------------------------------------------------------------
(* FractionBarsApp: the handlers the application wires to the classifier,  *)
(* as functions of the manager m they dispatch to                          *)

(* StateManager.getState(): the current snapshot *)
getState(m) == m.state

(* state.bars.find(...) || null, as <<bar>> or <<>> *)
findBarAt(m, x, y) ==
    LET bars == getState(m).bars
        hits == SelectSeq(bars, LAMBDA bar : /\ x >= bar.x /\ x <= bar.x + bar.width
                                             /\ y >= bar.y /\ y <= bar.y + bar.height)
    IN IF Len(hits) > 0 THEN <<hits[1]>> ELSE <<>>

getSelectedBars(m) == SelectSeq(getState(m).bars, LAMBDA bar : bar.isSelected)

(* calculateSplits with the click's coordinates in place of its offsets *)
calculateSplitsAbsolute(bar, x, y, isVertical) ==
    IF isVertical
    THEN <<[x |-> 0, y |-> 0, width |-> x, height |-> bar.height, color |-> bar.color],
           [x |-> x, y |-> 0, width |-> bar.width - x, height |-> bar.height,
            color |-> bar.color]>>
    ELSE <<[x |-> 0, y |-> 0, width |-> bar.width, height |-> y, color |-> bar.color],
           [x |-> 0, y |-> y, width |-> bar.width, height |-> bar.height - y,
            color |-> bar.color]>>

calculateSplits(bar, x, y, isVertical) ==
    LET relativeX == x - bar.x
        relativeY == y - bar.y
    IN IF isVertical
       THEN <<[x |-> 0, y |-> 0, width |-> relativeX, height |-> bar.height,
               color |-> bar.color],
              [x |-> relativeX, y |-> 0, width |-> bar.width - relativeX,
               height |-> bar.height, color |-> bar.color]>>
       ELSE <<[x |-> 0, y |-> 0, width |-> bar.width, height |-> relativeY,
               color |-> bar.color],
              [x |-> 0, y |-> relativeY, width |-> bar.width,
               height |-> bar.height - relativeY, color |-> bar.color]>>

(* canBarsJoin that accepts a gap of exactly 5 *)
canBarsJoinInclusive(bar1, bar2) ==
    LET gap == 5
        dimensionsMatch == bar1.width = bar2.width \/ bar1.height = bar2.height
        adjacent == \/ Abs(bar1.x + bar1.width - bar2.x) <= gap
                    \/ Abs(bar2.x + bar2.width - bar1.x) <= gap
                    \/ Abs(bar1.y + bar1.height - bar2.y) <= gap
                    \/ Abs(bar2.y + bar2.height - bar1.y) <= gap
    IN dimensionsMatch /\ adjacent

canBarsJoin(bar1, bar2) ==
    LET gap == 5
        dimensionsMatch == bar1.width = bar2.width \/ bar1.height = bar2.height
        adjacent == \/ Abs(bar1.x + bar1.width - bar2.x) < gap
                    \/ Abs(bar2.x + bar2.width - bar1.x) < gap
                    \/ Abs(bar1.y + bar1.height - bar2.y) < gap
                    \/ Abs(bar2.y + bar2.height - bar1.y) < gap
    IN dimensionsMatch /\ adjacent

handleBarSelect(m, x, y, time) ==
    LET found == findBarAt(m, x, y)
    IN IF found # <<>>
       THEN dispatch(m, [type |-> "MODIFY_BAR",
                         payload |-> [id |-> found[1].id,
                                      changes |-> [isSelected |-> ~found[1].isSelected]]],
                     time)
       ELSE m

handleBarSplit(m, x, y, isVertical, time) ==
    LET found == findBarAt(m, x, y)
    IN IF found # <<>>
       THEN dispatch(m, [type |-> "SPLIT_BAR",
                         payload |-> [barId |-> found[1].id,
                                      splits |-> calculateSplits(found[1], x, y,
                                                                 isVertical)]],
                     time)
       ELSE m

(* a drag handler that moves each bar to the delta itself *)
RECURSIVE DragBarsToDelta(_, _, _, _, _, _)
DragBarsToDelta(m, selectedBars, i, deltaX, deltaY, time) ==
    IF i > Len(selectedBars) THEN m
    ELSE LET bar == selectedBars[i]
         IN DragBarsToDelta(dispatch(m, [type |-> "MODIFY_BAR",
                                         payload |-> [id |-> bar.id,
                                                      changes |-> [x |-> deltaX,
                                                                   y |-> deltaY]]],
                                     time),
                            selectedBars, i + 1, deltaX, deltaY, time)

(* selectedBars.forEach(bar => dispatch(MODIFY_BAR ...)) from bar i on *)
RECURSIVE DragBars(_, _, _, _, _, _)
DragBars(m, selectedBars, i, deltaX, deltaY, time) ==
    IF i > Len(selectedBars) THEN m
    ELSE LET bar == selectedBars[i]
         IN DragBars(dispatch(m, [type |-> "MODIFY_BAR",
                                  payload |-> [id |-> bar.id,
                                               changes |-> [x |-> bar.x + deltaX,
                                                            y |-> bar.y + deltaY]]],
                              time),
                     selectedBars, i + 1, deltaX, deltaY, time)

handleBarDrag(m, deltaX, deltaY, time) ==
    LET opened == batchOpen(m)
    IN batchClose(DragBars(opened, getSelectedBars(opened), 1, deltaX, deltaY, time))

handleBarJoin(m, bar1, bar2, time) ==
    IF canBarsJoin(bar1, bar2)
    THEN LET joinedBar == createJoinedBar(bar1, bar2, m.idCounter)
         IN dispatch([m EXCEPT !.idCounter = m.idCounter + 1],
                     [type |-> "JOIN_BARS",
                      payload |-> [sourceIds |-> <<bar1.id, bar2.id>>,
                                   resultBar |-> joinedBar]],
                     time)
    ELSE m

----------------------------------------------------------------------------
(* KeyboardNavigationManager.  focusedBarIndex counts from 0 as in the     *)
(* code; bars[k] of the code is bars[k + 1] here.                          *)

Directions == {"next", "previous", "first", "last"}

(* the value moveFocus leaves in focusedBarIndex *)
moveFocus(k, m, direction) ==
    LET bars == getState(m).bars
    IN IF Len(bars) = 0 THEN k
       ELSE CASE direction = "next" -> Min(k + 1, Len(bars) - 1)
              [] direction = "previous" -> Max(k - 1, 0)
              [] direction = "first" -> 0
              [] direction = "last" -> Len(bars) - 1

(* focusBar(bars[k]) reads bar.id: a TypeError when bars[k] is undefined *)
focusBarThrows(k, m) == k + 1 \notin 1..Len(getState(m).bars)

toggleSelection(k, m, time) ==
    LET bars == getState(m).bars
    IN IF k >= 0 /\ k < Len(bars)
       THEN LET bar == bars[k + 1]
            IN dispatch(m, [type |-> "MODIFY_BAR",
                            payload |-> [id |-> bar.id,
                                         changes |-> [isSelected |-> ~bar.isSelected]]],
                        time)
       ELSE m

----------------------------------------------------------------------------
(* The state machine *)

(* a snapshot an earlier session left in storage *)
SavedSnapshot ==
    [defaultState EXCEPT
       !.currentTool = "join",
       !.bars = <<[id |-> 101, x |-> 0, y |-> 0, width |-> 100, height |-> 60,
                   color |-> "#FFFF66", isSelected |-> FALSE, isUnitBar |-> FALSE,
                   splits |-> <<>>]>>]

NoneNotified == [cb \in Subs |-> <<>>]

(* the callback fields before setCallbacks is called: all undefined (<<>>) *)
NoCallbacks ==
    [onBarSelect |-> <<>>, onBarSplit |-> <<>>, onBarJoin |-> <<>>, onBarDrag |-> <<>>]

(* the input managers after new TouchInteractionManager(element) and       *)
(* new KeyboardNavigationManager(stateManager)                             *)
TouchConstructed ==
    /\ activeTouches = <<>>
    /\ gestureState = initialGestureState
    /\ emitted = <<>>
    /\ callbacks = NoCallbacks
    /\ focusedBarIndex = -1

(* the application after new StateManager(initialState) and                *)
(* new TouchInteractionManager(element)                                    *)
Constructed(initialState) ==
    /\ ctorState = createInitialState(initialState)
    /\ state = ctorState
    /\ history = <<>>
    /\ future = <<>>
    /\ subscribers = {}
    /\ batchOperation = FALSE
    /\ batchedActions = <<>>
    /\ idCounter = 0
    /\ now = 0
    /\ depth = 0
    /\ localStore = <<SavedSnapshot>>
    /\ indexedStore = <<>>
    /\ loadPending = FALSE
    /\ lastOp = "new"
    /\ notified = NoneNotified
    /\ preState = <<>>
    /\ preFuture = 0
    /\ executed = <<>>
    /\ undone = FALSE
    /\ rt = [phase |-> "dispatch", n |-> 0, u |-> 0, r |-> 0, target |-> <<>>]
    /\ saveTimeouts = {}
    /\ timeout = <<>>
    /\ autoSaveInterval = setupAutoSave(0)
    /\ TouchConstructed

Init == Constructed(NoPartial)

Mgr ==
    [state |-> state, history |-> history, future |-> future,
     batchOperation |-> batchOperation, batchedActions |-> batchedActions,
     idCounter |-> idCounter, out |-> <<>>, scheduled |-> FALSE]

(* the manager's fields after a call that ran at Date.now() = time *)
PublishAt(m, time) ==
    /\ state' = m.state
    /\ history' = m.history
    /\ future' = m.future
    /\ batchOperation' = m.batchOperation
    /\ batchedActions' = m.batchedActions
    /\ idCounter' = m.idCounter
    /\ notified' = [cb \in Subs |-> IF cb \in subscribers THEN m.out ELSE <<>>]
    /\ LET timers == IF m.scheduled
                     THEN scheduleSave([pending |-> saveTimeouts, timeout |-> timeout], time)
                     ELSE [pending |-> saveTimeouts, timeout |-> timeout]
       IN /\ saveTimeouts' = timers.pending
          /\ timeout' = timers.timeout
    /\ UNCHANGED autoSaveInterval

Publish(m) == PublishAt(m, now)

Bounded ==
    /\ Len(history) + Len(future) + Len(batchedActions) <= MaxLog
    /\ idCounter <= MaxId
    /\ depth <= MaxDepth

DispatchCall(a) ==
    /\ LET m == dispatch([Mgr EXCEPT !.idCounter = idCounter + CallerIds(a)], a, now)
       IN /\ Publish(m)
          /\ lastOp' = IF batchOperation THEN "buffer" ELSE "dispatch"
          /\ preState' = IF batchOperation THEN <<>> ELSE <<state>>
          /\ preFuture' = Len(future)
    /\ UNCHANGED <<subscribers, now, depth, localStore, indexedStore, loadPending, ctorState>>

UndoCall ==
    /\ Publish(undo(Mgr))
    /\ lastOp' = IF Len(history) = 0 THEN "undoNoop" ELSE "undo"
    /\ preState' = <<>>
    /\ preFuture' = Len(future)
    /\ UNCHANGED <<subscribers, now, depth, localStore, indexedStore, loadPending,
                   ctorState>>

RedoCall ==
    /\ Publish(redo(Mgr))
    /\ lastOp' = IF Len(future) = 0 THEN "redoNoop" ELSE "redo"
    /\ preState' = <<>>
    /\ preFuture' = Len(future)
    /\ UNCHANGED <<subscribers, now, depth, localStore, indexedStore, loadPending,
                   ctorState>>

BatchOpenCall ==
    /\ Publish(batchOpen(Mgr))
    /\ depth' = depth + 1
    /\ lastOp' = "batchOpen"
    /\ preState' = <<>>
    /\ preFuture' = Len(future)
    /\ UNCHANGED <<subscribers, now, localStore, indexedStore, loadPending, ctorState>>

BatchCloseCall ==
    /\ depth > 0
    /\ Publish(batchClose(Mgr))
    /\ depth' = depth - 1
    /\ lastOp' = "batchClose"
    /\ preState' = IF Len(batchedActions) > 0
                   THEN <<ExecuteAll(Mgr, Front(batchedActions), 1).state>>
                   ELSE <<>>
    /\ preFuture' = Len(future)
    /\ UNCHANGED <<subscribers, now, localStore, indexedStore, loadPending, ctorState>>

(* a batch() with try/finally around callback(): the throw closes the      *)
(* window and drops the buffer                                             *)
BatchThrowCallClosing ==
    /\ depth > 0
    /\ depth' = 0
    /\ batchOperation' = FALSE
    /\ batchedActions' = <<>>
    /\ lastOp' = "batchThrow"
    /\ notified' = NoneNotified
    /\ preState' = <<>>
    /\ preFuture' = Len(future)
    /\ UNCHANGED <<state, history, future, subscribers, idCounter, now, localStore,
                   indexedStore, loadPending, ctorState, saveVars>>

(* the callback throws: no batch() on the stack catches, so every open     *)
(* batch() call is abandoned at the call of callback                       *)
BatchThrowCall ==
    /\ depth > 0
    /\ depth' = 0
    /\ lastOp' = "batchThrow"
    /\ notified' = NoneNotified
    /\ preState' = <<>>
    /\ preFuture' = Len(future)
    /\ UNCHANGED <<state, history, future, subscribers, batchOperation, batchedActions,
                   idCounter, now, localStore, indexedStore, loadPending, ctorState, saveVars>>

SubscribeCall(cb) ==
    /\ subscribers' = subscribers \cup {cb}
    /\ notified' = [c \in Subs |-> IF c = cb THEN <<state>> ELSE <<>>]
    /\ lastOp' = "subscribe"
    /\ preState' = <<>>
    /\ preFuture' = Len(future)
    /\ UNCHANGED <<state, history, future, batchOperation, batchedActions, idCounter,
                   now, depth, localStore, indexedStore, loadPending, ctorState, saveVars>>

(* the handle subscribe(cb) returned is called *)
UnsubscribeCall(cb) ==
    /\ cb \in subscribers
    /\ subscribers' = subscribers \ {cb}
    /\ notified' = NoneNotified
    /\ lastOp' = "unsubscribe"
    /\ preState' = <<>>
    /\ preFuture' = Len(future)
    /\ UNCHANGED <<state, history, future, batchOperation, batchedActions, idCounter,
                   now, depth, localStore, indexedStore, loadPending, ctorState, saveVars>>

(* loadState() up to its first await *)
LoadStateCall ==
    /\ ~loadPending
    /\ loadPending' = TRUE
    /\ lastOp' = "loadState"
    /\ notified' = NoneNotified
    /\ preState' = <<>>
    /\ preFuture' = Len(future)
    /\ UNCHANGED <<state, history, future, subscribers, batchOperation, batchedActions,
                   idCounter, now, depth, localStore, indexedStore, ctorState, saveVars>>

(* loadFromIndexedDB(): store.get('current') returns an IDBRequest, and    *)
(* await hands that request object back as it is; it has no property       *)
(* state, so the function returns null whatever the record holds           *)
loadFromIndexedDB(record) == <<>>

(* a load that catches the failure of IndexedDB and falls back to the      *)
(* localStorage item                                                       *)
LoadedFallingBack(fails) ==
    localStore

(* what loadState() hands to updateState: what loadFromIndexedDB()         *)
(* returned if that is not null, else the localStorage item, else          *)
(* nothing; nothing when storage throws or rejects (the catch block)       *)
Loaded(fails) ==
    IF fails THEN <<>>
    ELSE IF loadFromIndexedDB(indexedStore) # <<>> THEN loadFromIndexedDB(indexedStore)
    ELSE localStore

(* a load that also starts a new log *)
LoadStateResumeClearingLog(fails) ==
    /\ loadPending
    /\ depth = 0
    /\ loadPending' = FALSE
    /\ LET got == Loaded(fails)
       IN /\ Publish(IF got = <<>> THEN Mgr
                     ELSE updateState([Mgr EXCEPT !.history = <<>>, !.future = <<>>], got[1]))
          /\ lastOp' = IF fails THEN "loadFailed"
                       ELSE IF got = <<>> THEN "loadNothing" ELSE "loaded"
    /\ preState' = <<>>
    /\ preFuture' = Len(future)
    /\ UNCHANGED <<subscribers, now, depth, localStore, indexedStore, ctorState>>

(* a load that applies the log to the snapshot it read *)
LoadStateResumeReplayingLog(fails) ==
    /\ loadPending
    /\ depth = 0
    /\ loadPending' = FALSE
    /\ LET got == Loaded(fails)
       IN /\ Publish(IF got = <<>> THEN Mgr
                     ELSE updateState(Mgr, ReplayFrom(got[1], history, 1, Len(history),
                                                      state, idCounter).state))
          /\ lastOp' = IF fails THEN "loadFailed"
                       ELSE IF got = <<>> THEN "loadNothing" ELSE "loaded"
    /\ preState' = <<>>
    /\ preFuture' = Len(future)
    /\ UNCHANGED <<subscribers, now, depth, localStore, indexedStore, ctorState>>

(* loadState() resumes after the await; the call stack is empty then *)
LoadStateResume(fails) ==
    /\ loadPending
    /\ depth = 0
    /\ loadPending' = FALSE
    /\ LET got == Loaded(fails)
       IN /\ Publish(IF got = <<>> THEN Mgr ELSE updateState(Mgr, got[1]))
          /\ lastOp' = IF fails THEN "loadFailed"
                       ELSE IF got = <<>> THEN "loadNothing" ELSE "loaded"
    /\ preState' = <<>>
    /\ preFuture' = Len(future)
    /\ UNCHANGED <<subscribers, now, depth, localStore, indexedStore, ctorState>>

(* saveState(): the two stores afterwards.  The stored item is the state   *)
(* it serializes (the timestamp beside it is never read back).  Outcome    *)
(* "ok": both writes succeed; "quota": localStorage.setItem throws;        *)
(* "indexed": the IndexedDB write fails after the localStorage write.      *)
(* The catch block logs the failure and the call returns normally.         *)
SaveOutcomes == {"ok", "quota", "indexed"}

saveState(s, stores, outcome) ==
    [local |-> IF outcome = "quota" THEN stores.local ELSE <<s>>,
     indexed |-> IF outcome = "ok" THEN <<s>> ELSE stores.indexed]

SaveStateRun(outcome) ==
    LET stores == saveState(state, [local |-> localStore, indexed |-> indexedStore], outcome)
    IN /\ localStore' = stores.local
       /\ indexedStore' = stores.indexed
       /\ notified' = NoneNotified
       /\ preState' = <<>>
       /\ preFuture' = Len(future)
       /\ UNCHANGED <<state, history, future, subscribers, batchOperation, batchedActions,
                      idCounter, now, depth, loadPending, ctorState>>

(* a caller calls saveState() *)
SaveStateCall(outcome) ==
    /\ SaveStateRun(outcome)
    /\ lastOp' = IF outcome = "ok" THEN "saveState" ELSE "saveFailed"
    /\ UNCHANGED saveVars

(* a timer of scheduleSave is due: the event loop runs its callback *)
SaveTimeoutRuns(outcome) ==
    /\ depth = 0
    /\ \E due \in saveTimeouts :
          /\ due <= now
          /\ saveTimeouts' = saveTimeouts \ {due}
    /\ SaveStateRun(outcome)
    /\ lastOp' = "debouncedSave"
    /\ UNCHANGED <<timeout, autoSaveInterval>>

(* the interval of setupAutoSave is due: the event loop runs its callback *)
AutoSaveRuns(outcome) ==
    /\ depth = 0
    /\ autoSaveInterval # <<>>
    /\ autoSaveInterval[1] <= now
    /\ autoSaveInterval' = <<autoSaveInterval[1] + 30000>>
    /\ SaveStateRun(outcome)
    /\ lastOp' = "intervalSave"
    /\ UNCHANGED <<saveTimeouts, timeout>>

(* a destroy() that also clears the timer of scheduleSave *)
DestroyCallClearingTimeout ==
    /\ autoSaveInterval' = <<>>
    /\ subscribers' = {}
    /\ saveTimeouts' = {}
    /\ timeout' = <<>>
    /\ lastOp' = "destroy"
    /\ notified' = NoneNotified
    /\ preState' = <<>>
    /\ preFuture' = Len(future)
    /\ UNCHANGED <<state, history, future, batchOperation, batchedActions, idCounter,
                   now, depth, localStore, indexedStore, loadPending, ctorState>>

(* destroy(): clearInterval takes the interval from the event loop (<<>>), *)
(* the subscribers are dropped; the timers of scheduleSave are not touched *)
DestroyCall ==
    /\ autoSaveInterval' = <<>>
    /\ subscribers' = {}
    /\ lastOp' = "destroy"
    /\ notified' = NoneNotified
    /\ preState' = <<>>
    /\ preFuture' = Len(future)
    /\ UNCHANGED <<state, history, future, batchOperation, batchedActions, idCounter,
                   now, depth, localStore, indexedStore, loadPending, ctorState,
                   saveTimeouts, timeout>>

(* due times of the timers the event loop holds *)
PendingTimers ==
    saveTimeouts \cup {autoSaveInterval[i] : i \in 1..Len(autoSaveInterval)}

(* time passes up to target; a timer runs when it is due, so time does not *)
(* pass beyond the due time of a pending timer                             *)
TimePasses(target) ==
    /\ target > now
    /\ \A due \in PendingTimers : target <= due
    /\ now' = target
    /\ lastOp' = "wait"
    /\ notified' = NoneNotified
    /\ preState' = <<>>
    /\ preFuture' = Len(future)
    /\ UNCHANGED <<state, history, future, subscribers, batchOperation, batchedActions,
                   idCounter, depth, localStore, indexedStore, loadPending, ctorState,
                   saveVars>>

----------------------------------------------------------------------------
(* Specification of the manager under any interleaving of its API calls *)

Dispatch(a) == DispatchCall(a) /\ Bounded' /\ UNCHANGED <<auxVars, gestVars>>
Undo == UndoCall /\ Bounded' /\ UNCHANGED <<auxVars, gestVars>>
Redo == RedoCall /\ Bounded' /\ UNCHANGED <<auxVars, gestVars>>
BatchOpen == BatchOpenCall /\ Bounded' /\ UNCHANGED <<auxVars, gestVars>>
BatchClose == BatchCloseCall /\ Bounded' /\ UNCHANGED <<auxVars, gestVars>>
BatchThrow == BatchThrowCall /\ UNCHANGED <<auxVars, gestVars>>
Subscribe(cb) == SubscribeCall(cb) /\ UNCHANGED <<auxVars, gestVars>>
Unsubscribe(cb) == UnsubscribeCall(cb) /\ UNCHANGED <<auxVars, gestVars>>
LoadState == LoadStateCall /\ UNCHANGED <<auxVars, gestVars>>
LoadResume(fails) == LoadStateResume(fails) /\ Bounded' /\ UNCHANGED <<auxVars, gestVars>>

Next ==
    \/ \E a \in Requests(state, idCounter) : Dispatch(a)
    \/ Undo
    \/ Redo
    \/ BatchOpen
    \/ BatchClose
    \/ BatchThrow

Spec == Init /\ [][Next]_vars

----------------------------------------------------------------------------
(* Round trips: a manager takes N dispatches, then N undo() calls, then N  *)
(* redo() calls                                                            *)

RtDispatch(a) ==
    /\ rt.phase = "dispatch"
    /\ rt.n < MaxRoundTrip
    /\ DispatchCall(a)
    /\ rt' = [rt EXCEPT !.n = rt.n + 1]
    /\ UNCHANGED <<executed, undone, gestVars>>

RtUndo ==
    /\ rt.phase \in {"dispatch", "undo"}
    /\ rt.u < rt.n
    /\ UndoCall
    /\ rt' = [rt EXCEPT !.phase = "undo",
                        !.u = rt.u + 1,
                        !.target = IF rt.phase = "dispatch" THEN <<state>> ELSE rt.target]
    /\ UNCHANGED <<executed, undone, gestVars>>

RtRedo ==
    /\ rt.phase \in {"undo", "redo"}
    /\ rt.u = rt.n
    /\ rt.r < rt.n
    /\ RedoCall
    /\ rt' = [rt EXCEPT !.phase = "redo", !.r = rt.r + 1]
    /\ UNCHANGED <<executed, undone, gestVars>>

RtNext ==
    \/ \E a \in Requests(state, idCounter) : RtDispatch(a)
    \/ RtUndo
    \/ RtRedo

RoundTripSpec == Init /\ [][RtNext]_vars

(* the same runs of a manager built by new StateManager(initialState),     *)
(* with or without an initial state                                        *)
CtorInit ==
    \E tool \in {"bar", "split"} :
        Constructed(IF tool = "bar" THEN NoPartial ELSE [currentTool |-> tool])

ConstructedSpec == CtorInit /\ [][RtNext]_vars

----------------------------------------------------------------------------
(* The log bound: one dispatch per millisecond, then undo() calls *)

LogDispatch(a) ==
    /\ ~undone
    /\ now < MaxLogOps
    /\ now' = now + 1
    /\ LET m == dispatch(Mgr, a, now')
       IN /\ PublishAt(m, now')
          /\ executed' = Append(executed, Last(m.history))
    /\ lastOp' = "dispatch"
    /\ preState' = <<state>>
    /\ preFuture' = Len(future)
    /\ UNCHANGED <<subscribers, depth, localStore, indexedStore, loadPending, ctorState,
                   undone, rt, gestVars>>

LogUndo ==
    /\ UndoCall
    /\ undone' = TRUE
    /\ UNCHANGED <<executed, rt, gestVars>>

LogNext ==
    \/ \E a \in ToolRequests : LogDispatch(a)
    \/ LogUndo

LogSpec == Init /\ [][LogNext]_vars

(* Eviction: the first dispatch adds a bar, changes the settings or the    *)
(* tool, the later ones change the tool; after more than 100 dispatches,   *)
(* undo() and redo() calls                                                 *)

EvictDispatch(a) == LogDispatch(a)

EvictUndo ==
    /\ Len(executed) > maxHistorySize
    /\ LogUndo

EvictRedo ==
    /\ undone
    /\ RedoCall
    /\ UNCHANGED <<executed, undone, rt, gestVars>>

EvictNext ==
    \/ \E a \in IF now = 0 THEN AddRequests \cup SettingsRequests \cup ToolRequests
                 ELSE ToolRequests : EvictDispatch(a)
    \/ EvictUndo
    \/ EvictRedo

EvictSpec == Init /\ [][EvictNext]_vars

----------------------------------------------------------------------------
(* Subscribers: callbacks come and go while the state is updated by        *)
(* dispatches, batches, undo, redo and a load from storage                 *)

NotifyRequests == AddRequests \cup ToolRequests

NotifyNext ==
    \/ \E a \in NotifyRequests : Dispatch(a)
    \/ Undo
    \/ Redo
    \/ BatchOpen
    \/ BatchClose
    \/ \E cb \in Subs : Subscribe(cb)
    \/ \E cb \in Subs : Unsubscribe(cb)
    \/ LoadState
    \/ \E fails \in BOOLEAN : LoadResume(fails)

NotifySpec == Init /\ [][NotifyNext]_vars

----------------------------------------------------------------------------
(* Dispatches the reducer passes through: an unknown action type and ids   *)
(* of no bar, next to ADD_BAR, under undo, redo and subscriptions          *)

NoOpRequests == UnknownRequests \cup {Act("REMOVE_BAR", [id |-> 99]),
                                      Act("MODIFY_BAR", [id |-> 99,
                                                         changes |-> [isSelected |-> TRUE]])}

NoOpNext ==
    \/ \E a \in AddRequests \cup NoOpRequests : Dispatch(a)
    \/ Undo
    \/ Redo
    \/ \E cb \in Subs : Subscribe(cb)
    \/ \E cb \in Subs : Unsubscribe(cb)

NoOpSpec == Init /\ [][NoOpNext]_vars

----------------------------------------------------------------------------
(* Batches: callbacks that dispatch, call batch() again, return or throw,  *)
(* with one subscriber                                                     *)

BatchNext ==
    \/ \E a \in NotifyRequests : Dispatch(a)
    \/ BatchOpen
    \/ BatchClose
    \/ BatchThrow
    \/ Subscribe("cb1")

BatchSpec == Init /\ [][BatchNext]_vars

----------------------------------------------------------------------------
(* A load from storage among dispatches, undo and redo, with one           *)
(* subscriber coming and going                                             *)

LoadNext ==
    \/ \E a \in NotifyRequests : Dispatch(a)
    \/ Undo
    \/ Redo
    \/ LoadState
    \/ \E fails \in BOOLEAN : LoadResume(fails)
    \/ Subscribe("cb1")
    \/ Unsubscribe("cb1")

LoadSpec == Init /\ [][LoadNext]_vars

----------------------------------------------------------------------------
(* Bars added with the defaults of the settings, while the settings change *)

DefaultsRequests ==
    AddRequests \cup SettingsRequests
    \cup {Act("UPDATE_SETTINGS", [defaultBarColor |-> "#FF6666"])}

DefaultsNext ==
    \/ \E a \in DefaultsRequests : Dispatch(a)
    \/ Undo
    \/ Redo

DefaultsSpec == Init /\ [][DefaultsNext]_vars

----------------------------------------------------------------------------
(* The bar collection under dispatch, undo and redo, with the requests a   *)
(* caller of the public dispatch may make: ids of no bar, and MODIFY_BAR   *)
(* changes of any field of a bar.  The manager starts with the bars its    *)
(* constructor was given.                                                  *)

MissingRequests ==
    LET id == 99
    IN {Act("REMOVE_BAR", [id |-> id]),
        Act("MODIFY_BAR", [id |-> id, changes |-> [isSelected |-> TRUE]]),
        Act("SPLIT_BAR", [barId |-> id,
                          splits |-> <<[x |-> 0, y |-> 0, width |-> 40, height |-> 60,
                                        color |-> "#FFFF66"]>>]),
        Act("SET_UNIT_BAR", [id |-> id])}

UnitFlagRequests(s) ==
    {Act("MODIFY_BAR", [id |-> id, changes |-> [isUnitBar |-> TRUE]]) : id \in BarIds(s)}

BarRequests(s, counter) ==
    AddRequests \cup RemoveRequests(s) \cup ModifyRequests(s) \cup UnitFlagRequests(s)
    \cup SplitRequests(s) \cup JoinRequests(s, counter) \cup UnitRequests(s)
    \cup MissingRequests

BarsDispatch(a) == DispatchCall(a) /\ Bounded' /\ UNCHANGED <<auxVars, gestVars>>

BarsNext ==
    \/ \E a \in BarRequests(state, idCounter) : BarsDispatch(a)
    \/ Undo
    \/ Redo

(* a bar of an earlier session, handed to the constructor *)
StoredBar(id, x) ==
    [id |-> id, x |-> x, y |-> 0, width |-> 100, height |-> 60, color |-> "#FFFF66",
     isSelected |-> FALSE, isUnitBar |-> FALSE, splits |-> <<>>]

(* new StateManager() or new StateManager({bars: [...]}) *)
BarsInit ==
    \E bars \in {<<>>, <<StoredBar(101, 0)>>, <<StoredBar(101, 0), StoredBar(102, 100)>>} :
        Constructed([bars |-> bars])

BarsSpec == BarsInit /\ [][BarsNext]_vars

(* new StateManager(initialState) with a selection and a unit bar *)
SelectionInit ==
    \E partial \in
          {[bars |-> <<[StoredBar(101, 0) EXCEPT !.isSelected = TRUE, !.isUnitBar = TRUE],
                       [StoredBar(102, 100) EXCEPT !.isSelected = TRUE]>>,
            selectedBarIds |-> <<101, 102>>, unitBarId |-> 101],
           [bars |-> <<StoredBar(101, 0), [StoredBar(102, 100) EXCEPT !.isSelected = TRUE]>>,
            selectedBarIds |-> <<102>>]} :
       Constructed(partial)

SelectionSpec == SelectionInit /\ [][BarsNext]_vars

----------------------------------------------------------------------------
(* The classifier under pointer events.  A touchstart brings touch points  *)
(* with identifiers that no active touch has; move and end events may name *)
(* any identifier; the clock advances between events.                      *)

TouchIds == {1, 2}
StartPoints(id) == IF id = 2 THEN {<<0, 0>>, <<20, 0>>} ELSE {<<0, 0>>}
MovePoints == {<<3, 3>>, <<10, 0>>, <<3, 20>>, <<20, 3>>, <<15, 15>>}

Touch(id, p) == [identifier |-> id, clientX |-> p[1], clientY |-> p[2]]
MouseEvent(p) == [clientX |-> p[1], clientY |-> p[2]]

StartEvents(ids) ==
    {<<Touch(e[1], e[2])>> : e \in {f \in ids \X {<<0, 0>>, <<20, 0>>} : f[2] \in StartPoints(f[1])}}
    \cup IF TouchIds \subseteq ids
         THEN {<<Touch(1, p), Touch(2, q)>> : p \in StartPoints(1), q \in StartPoints(2)}
         ELSE {}
MoveEvents(ids) == {<<Touch(id, p)>> : id \in ids, p \in MovePoints}

Tm == [activeTouches |-> activeTouches, gestureState |-> gestureState, out |-> <<>>]

PublishTouch(tm, op) ==
    /\ activeTouches' = tm.activeTouches
    /\ gestureState' = tm.gestureState
    /\ emitted' = tm.out
    /\ lastOp' = op
    /\ UNCHANGED <<progVars, ctorState, notified, preState, preFuture, auxVars, saveVars,
                   callbacks, focusedBarIndex>>

TouchStart(changedTouches) ==
    /\ \A i \in 1..Len(changedTouches) :
          ~MapHas(activeTouches, changedTouches[i].identifier)
    /\ PublishTouch(handleTouchStart(Tm, changedTouches, now), "touchstart")

TouchMove(changedTouches) ==
    PublishTouch(handleTouchMove(Tm, changedTouches), "touchmove")

TouchEnd(changedTouches) ==
    PublishTouch(handleTouchEnd(Tm, changedTouches, now), "touchend")

MouseDown(p) == PublishTouch(handleMouseDown(Tm, MouseEvent(p), now), "mousedown")
MouseMove(p) == PublishTouch(handleMouseMove(Tm, MouseEvent(p)), "mousemove")
MouseUp(p) == PublishTouch(handleMouseUp(Tm, MouseEvent(p), now), "mouseup")

(* 300 ms pass *)
Tick ==
    /\ now < MaxTicks * 300
    /\ now' = now + 300
    /\ emitted' = <<>>
    /\ lastOp' = "tick"
    /\ UNCHANGED <<state, history, future, subscribers, batchOperation, batchedActions,
                   idCounter, depth, localStore, indexedStore, loadPending, ctorState,
                   notified, preState, preFuture, auxVars, activeTouches, gestureState,
                   callbacks, focusedBarIndex, saveVars>>

(* touch pointers only *)
GestureNext ==
    \/ \E e \in StartEvents(TouchIds) : TouchStart(e)
    \/ \E e \in MoveEvents(TouchIds) : TouchMove(e)
    \/ \E e \in MoveEvents(TouchIds) : TouchEnd(e)
    \/ Tick

GestureSpec == Init /\ [][GestureNext]_vars

(* the mouse and one touch pointer *)
PointerNext ==
    \/ \E e \in StartEvents({1}) : TouchStart(e)
    \/ \E e \in MoveEvents({1}) : TouchMove(e)
    \/ \E e \in MoveEvents({1}) : TouchEnd(e)
    \/ \E p \in StartPoints(-1) : MouseDown(p)
    \/ \E p \in MovePoints : MouseMove(p)
    \/ \E p \in MovePoints : MouseUp(p)
    \/ Tick

PointerSpec == Init /\ [][PointerNext]_vars

(* the mouse and two touch pointers: up to three active pointers *)
ThreePointerEvents == {<<Touch(id, p)>> : id \in TouchIds, p \in {<<10, 0>>, <<3, 20>>}}

ThreePointerNext ==
    \/ \E e \in StartEvents(TouchIds) : TouchStart(e)
    \/ \E e \in ThreePointerEvents : TouchMove(e)
    \/ \E e \in ThreePointerEvents : TouchEnd(e)
    \/ \E p \in StartPoints(-1) : MouseDown(p)
    \/ \E p \in {<<10, 0>>} : MouseMove(p)
    \/ \E p \in {<<10, 0>>} : MouseUp(p)

ThreePointerSpec == Init /\ [][ThreePointerNext]_vars

----------------------------------------------------------------------------
(* Scheduled saves: the state is updated by dispatch, undo, redo and a     *)
(* load from storage while time passes; the timers of scheduleSave and     *)
(* setupAutoSave run when they are due, and storage may fail.  Time        *)
(* passes in steps of half a second or a second during the first MaxClock  *)
(* half seconds; after that the application idles until the interval is    *)
(* due, for up to MaxIntervals periods of the interval.                    *)

PersistDispatch(a) == DispatchCall(a) /\ Bounded' /\ UNCHANGED <<auxVars, gestVars>>
SaveTimeout(outcome) == SaveTimeoutRuns(outcome) /\ UNCHANGED <<auxVars, gestVars>>
AutoSave(outcome) == AutoSaveRuns(outcome) /\ UNCHANGED <<auxVars, gestVars>>

Advance(ms) ==
    /\ now < MaxClock * 500
    /\ TimePasses(now + ms)
    /\ UNCHANGED <<auxVars, gestVars>>

Idle ==
    /\ autoSaveInterval # <<>>
    /\ autoSaveInterval[1] <= MaxIntervals * 30000
    /\ TimePasses(autoSaveInterval[1])
    /\ UNCHANGED <<auxVars, gestVars>>

PersistNext ==
    \/ \E a \in ToolRequests : PersistDispatch(a)
    \/ Undo
    \/ Redo
    \/ LoadState
    \/ \E fails \in BOOLEAN : LoadResume(fails)
    \/ \E outcome \in SaveOutcomes : SaveTimeout(outcome)
    \/ \E outcome \in SaveOutcomes : AutoSave(outcome)
    \/ \E ms \in {500, 1000} : Advance(ms)
    \/ Idle

PersistSpec == Init /\ [][PersistNext]_vars

----------------------------------------------------------------------------
(* Storage: callers save and load while the state is updated by dispatch,  *)
(* undo and redo, and storage may fail                                     *)

StorageDispatch(a) == DispatchCall(a) /\ Bounded' /\ UNCHANGED <<auxVars, gestVars>>
SaveCall(outcome) == SaveStateCall(outcome) /\ UNCHANGED <<auxVars, gestVars>>

StorageNext ==
    \/ \E a \in ToolRequests : StorageDispatch(a)
    \/ Undo
    \/ Redo
    \/ LoadState
    \/ \E fails \in BOOLEAN : LoadResume(fails)
    \/ \E outcome \in SaveOutcomes : SaveCall(outcome)

StorageSpec == Init /\ [][StorageNext]_vars

----------------------------------------------------------------------------
(* The application.  Its constructor builds the manager and the            *)
(* classifier, starts loadState(), hands its handlers to setCallbacks and  *)
(* subscribes handleStateChange (the callback "cb1").  Storage holds the   *)
(* snapshot of an earlier session.                                         *)

StoredAt(id, x, y, width, height) ==
    [StoredBar(id, x) EXCEPT !.y = y, !.width = width, !.height = height]

StoredSnapshots ==
    {[defaultState EXCEPT !.bars = bars] :
        bars \in {<<StoredBar(101, 0), StoredBar(102, 103)>>,
                  <<StoredBar(101, 0), StoredBar(102, 105)>>,
                  <<StoredBar(101, 0), StoredAt(102, 0, 64, 50, 40)>>,
                  <<StoredBar(101, 0), StoredAt(102, 0, 62, 100, 30)>>}}

(* the object literal wireComponents passes to setCallbacks *)
WiredCallbacks ==
    [onBarSelect |-> "handleBarSelect", onBarSplit |-> "handleBarSplit",
     onBarDrag |-> "handleBarDrag", onBarJoin |-> "handleBarJoin"]

AppConstructed(stored) ==
    /\ ctorState = createInitialState(NoPartial)
    /\ state = ctorState
    /\ history = <<>>
    /\ future = <<>>
    /\ subscribers = {"cb1"}
    /\ batchOperation = FALSE
    /\ batchedActions = <<>>
    /\ idCounter = 0
    /\ now = 0
    /\ depth = 0
    /\ localStore = <<stored>>
    /\ indexedStore = <<>>
    /\ loadPending = TRUE
    /\ lastOp = "new"
    /\ notified = [cb \in Subs |-> IF cb = "cb1" THEN <<ctorState>> ELSE <<>>]
    /\ preState = <<>>
    /\ preFuture = 0
    /\ executed = <<>>
    /\ undone = FALSE
    /\ rt = [phase |-> "dispatch", n |-> 0, u |-> 0, r |-> 0, target |-> <<>>]
    /\ saveTimeouts = {}
    /\ timeout = <<>>
    /\ autoSaveInterval = setupAutoSave(0)
    /\ activeTouches = <<>>
    /\ gestureState = initialGestureState
    /\ emitted = <<>>
    /\ callbacks = setCallbacks(WiredCallbacks)
    /\ focusedBarIndex = -1

AppInit == \E stored \in StoredSnapshots : AppConstructed(stored)

(* the manager's fields after a handler of the application ran *)
HandlerCall(m, op) ==
    /\ Publish(m)
    /\ lastOp' = op
    /\ preState' = <<state>>
    /\ preFuture' = Len(future)
    /\ UNCHANGED <<subscribers, now, depth, localStore, indexedStore, loadPending,
                   ctorState, auxVars, gestVars>>
    /\ Bounded'

----------------------------------------------------------------------------
(* The handlers, each called with the intent it is written for *)

Points == {<<40, 20>>, <<100, 60>>, <<150, 30>>, <<300, 300>>}

BarSelect(p) == HandlerCall(handleBarSelect(Mgr, p[1], p[2], now), "barSelect")
BarSplit(p, isVertical) ==
    HandlerCall(handleBarSplit(Mgr, p[1], p[2], isVertical, now), "barSplit")
BarDrag(delta) == HandlerCall(handleBarDrag(Mgr, delta[1], delta[2], now), "barDrag")
BarJoin(bar1, bar2) == HandlerCall(handleBarJoin(Mgr, bar1, bar2, now), "barJoin")

HandlerNext ==
    \/ \E fails \in BOOLEAN : LoadResume(fails)
    \/ \E p \in Points : BarSelect(p)
    \/ \E p \in Points, isVertical \in BOOLEAN : BarSplit(p, isVertical)
    \/ \E delta \in {<<4, 0>>} : BarDrag(delta)
    \/ \E i, j \in 1..Len(state.bars) :
          i # j /\ BarJoin(state.bars[i], state.bars[j])

HandlerSpec == AppInit /\ [][HandlerNext]_vars

----------------------------------------------------------------------------
(* The assembled application under touch events: the classifier hands each *)
(* intent to the callback field it calls, and a callback that is set runs  *)
(* the handler it names                                                    *)

RECURSIVE Deliver(_, _, _, _, _)
Deliver(m, cbs, intents, i, time) ==
    IF i > Len(intents) THEN m
    ELSE LET intent == intents[i]
             next ==
               IF intent.kind = "select" /\ cbs.onBarSelect = <<"handleBarSelect">>
               THEN handleBarSelect(m, intent.x, intent.y, time)
               ELSE IF intent.kind = "split" /\ cbs.onBarSplit = <<"handleBarSplit">>
               THEN handleBarSplit(m, intent.x, intent.y, intent.isVertical, time)
               ELSE IF intent.kind = "drag" /\ cbs.onBarDrag = <<"handleBarDrag">>
               THEN handleBarDrag(m, intent.deltaX, intent.deltaY, time)
               ELSE m
         IN Deliver(next, cbs, intents, i + 1, time)

AppPointer(tm, op) ==
    /\ activeTouches' = tm.activeTouches
    /\ gestureState' = tm.gestureState
    /\ emitted' = tm.out
    /\ Publish(Deliver(Mgr, callbacks, tm.out, 1, now))
    /\ lastOp' = op
    /\ preState' = <<state>>
    /\ preFuture' = Len(future)
    /\ UNCHANGED <<subscribers, now, depth, localStore, indexedStore, loadPending,
                   ctorState, callbacks, focusedBarIndex, auxVars>>
    /\ Bounded'

AppTouchStart(changedTouches) ==
    /\ \A i \in 1..Len(changedTouches) :
          ~MapHas(activeTouches, changedTouches[i].identifier)
    /\ AppPointer(handleTouchStart(Tm, changedTouches, now), "touchstart")

AppTouchMove(changedTouches) ==
    AppPointer(handleTouchMove(Tm, changedTouches), "touchmove")

AppTouchEnd(changedTouches) ==
    AppPointer(handleTouchEnd(Tm, changedTouches, now), "touchend")

AppNext ==
    \/ \E fails \in BOOLEAN : LoadResume(fails)
    \/ \E e \in StartEvents({1}) : AppTouchStart(e)
    \/ \E e \in MoveEvents({1}) : AppTouchMove(e)
    \/ \E e \in MoveEvents({1}) : AppTouchEnd(e)
    \/ Tick

AppSpec == AppInit /\ [][AppNext]_vars

----------------------------------------------------------------------------
(* One-finger gestures over an application whose classifier holds the      *)
(* handlers: the callbacks are passed under the keys setCallbacks reads.   *)
(* Storage holds a snapshot with selected bars.                            *)

DragCallbacks ==
    [onSelect |-> "handleBarSelect", onSplit |-> "handleBarSplit",
     onDrag |-> "handleBarDrag", onJoin |-> "handleBarJoin"]

DragSnapshots ==
    {[defaultState EXCEPT !.bars = bars] :
        bars \in {<<[StoredBar(101, 0) EXCEPT !.isSelected = TRUE]>>,
                  <<[StoredBar(101, 0) EXCEPT !.isSelected = TRUE], StoredBar(102, 103)>>,
                  <<[StoredBar(101, 0) EXCEPT !.isSelected = TRUE],
                    [StoredAt(102, 0, 64, 50, 40) EXCEPT !.isSelected = TRUE]>>}}

DragInit ==
    /\ ctorState = createInitialState(NoPartial)
    /\ state = ctorState
    /\ history = <<>>
    /\ future = <<>>
    /\ subscribers = {"cb1"}
    /\ batchOperation = FALSE
    /\ batchedActions = <<>>
    /\ idCounter = 0
    /\ now = 0
    /\ depth = 0
    /\ \E stored \in DragSnapshots : localStore = <<stored>>
    /\ indexedStore = <<>>
    /\ loadPending = TRUE
    /\ lastOp = "new"
    /\ notified = [cb \in Subs |-> IF cb = "cb1" THEN <<ctorState>> ELSE <<>>]
    /\ preState = <<>>
    /\ preFuture = 0
    /\ executed = <<>>
    /\ undone = FALSE
    /\ rt = [phase |-> "dispatch", n |-> 0, u |-> 0, r |-> 0, target |-> <<>>]
    /\ saveTimeouts = {}
    /\ timeout = <<>>
    /\ autoSaveInterval = setupAutoSave(0)
    /\ activeTouches = <<>>
    /\ gestureState = initialGestureState
    /\ emitted = <<>>
    /\ callbacks = setCallbacks(DragCallbacks)
    /\ focusedBarIndex = -1

DragPoints == {<<3, 3>>, <<15, 15>>, <<20, 15>>, <<3, 20>>}
DragEvents == {<<Touch(1, p)>> : p \in DragPoints}

DragNext ==
    \/ \E fails \in BOOLEAN : LoadResume(fails)
    \/ \E e \in StartEvents({1}) : AppTouchStart(e)
    \/ \E e \in DragEvents : AppTouchMove(e)
    \/ \E e \in DragEvents : AppTouchEnd(e)

DragSpec == DragInit /\ [][DragNext]_vars

----------------------------------------------------------------------------
(* Keyboard focus over a manager whose bars come and go *)

KeyMoveFocus(direction) ==
    /\ focusedBarIndex' = moveFocus(focusedBarIndex, Mgr, direction)
    /\ lastOp' = IF Len(state.bars) = 0 THEN "moveFocusNoop"
                 ELSE IF focusBarThrows(focusedBarIndex', Mgr) THEN "moveFocusThrow"
                 ELSE "moveFocus"
    /\ UNCHANGED <<progVars, ctorState, notified, preState, preFuture, auxVars, saveVars,
                   activeTouches, gestureState, emitted, callbacks>>

KeyToggleSelection ==
    HandlerCall(toggleSelection(focusedBarIndex, Mgr, now), "toggleSelection")

KeyRequests(s, counter) == AddRequests \cup RemoveRequests(s) \cup JoinRequests(s, counter)

(* new StateManager() or new StateManager({bars: [...]}) *)
KeyInit ==
    \E bars \in {<<>>, <<StoredBar(101, 0), StoredBar(102, 100), StoredBar(103, 200)>>} :
        Constructed([bars |-> bars])

KeyNext ==
    \/ \E direction \in Directions : KeyMoveFocus(direction)
    \/ KeyToggleSelection
    \/ \E a \in KeyRequests(state, idCounter) : Dispatch(a)
    \/ Undo
    \/ Redo

KeySpec == KeyInit /\ [][KeyNext]_vars

----------------------------------------------------------------------------
(* Teardown: destroy() is called while timers are pending, and the manager *)
(* is used afterwards                                                      *)

Destroy == DestroyCall /\ UNCHANGED <<auxVars, gestVars>>

(* with the interval cleared, time passes to the next timer of             *)
(* scheduleSave, or to the moment the interval would have fired            *)
DestroyedWait ==
    /\ autoSaveInterval = <<>>
    /\ now < 30000
    /\ \E target \in saveTimeouts \cup {30000} : TimePasses(target)
    /\ UNCHANGED <<auxVars, gestVars>>

DestroyNext ==
    \/ \E a \in ToolRequests : PersistDispatch(a)
    \/ Subscribe("cb1")
    \/ Destroy
    \/ \E outcome \in SaveOutcomes : SaveTimeout(outcome)
    \/ \E outcome \in SaveOutcomes : AutoSave(outcome)
    \/ \E ms \in {500, 1000} : Advance(ms)
    \/ Idle
    \/ DestroyedWait

DestroySpec == Init /\ [][DestroyNext]_vars

----------------------------------------------------------------------------
(* Properties *)

IsPrefix(a, b) == Len(a) <= Len(b) /\ SubSeq(b, 1, Len(a)) = a
Suffix(seq, k) == SubSeq(seq, Len(seq) - k + 1, Len(seq))

(* C1: after N dispatches, N undo() calls and N redo() calls the state     *)
(* equals the state that held after the N dispatches.                      *)
C1_UndoRedoRoundTrip ==
    (rt.phase = "redo" /\ rt.r = rt.n) => state = rt.target[1]

(* C2: dispatch(a) in a state S followed by undo() yields a state equal    *)
(* to S, whatever the action.                                              *)
C2_DispatchThenUndoRestores ==
    [][(lastOp = "dispatch" /\ lastOp' = "undo") => state' = preState[1]]_vars

(* C3: undo() on an empty log changes nothing and notifies nobody; on a    *)
(* non-empty log it moves the last entry onto the future buffer and sets   *)
(* the state to the replay of the manager's initial state through the      *)
(* remaining entries.                                                      *)
C3_UndoReplaysInitialState ==
    [][/\ lastOp' = "undoNoop" =>
            /\ UNCHANGED <<state, history, future>>
            /\ notified' = NoneNotified
       /\ lastOp' = "undo" =>
            /\ history' = Front(history)
            /\ future' = Append(future, Last(history))
            /\ state' = ReplayFrom(ctorState, history', 1, Len(history'),
                                   state, idCounter).state]_vars

(* C4: redo() on an empty future buffer changes nothing; otherwise it      *)
(* removes exactly the most recently undone action from the buffer,        *)
(* appends it to the log and applies it to the current state, and the      *)
(* actions undone earlier stay in the buffer.                              *)
C4_RedoMovesOneAction ==
    [][/\ lastOp' = "redoNoop" => UNCHANGED <<state, history, future>>
       /\ lastOp' = "redo" =>
            /\ future' = Front(future)
            /\ history' = Append(history, Last(future))
            /\ state' = reducer(state, Last(future), state, idCounter)]_vars

(* C5: once a dispatched action has been executed (at once, or when the    *)
(* batch it was buffered in closes) the future buffer is empty, so a       *)
(* redo() that follows changes nothing.                                    *)
C5_DispatchAbandonsRedoBranch ==
    [][(lastOp' = "dispatch" \/ (lastOp' = "batchClose" /\ Len(batchedActions) > 0))
          => (future' = <<>> /\ redo(Mgr') = Mgr')]_vars

C5_Witness ==
    lastOp = "dispatch" /\ preFuture > 0 /\ future = <<>> /\ Len(history) > 0

(* C6: the log never holds more than 100 actions; while nothing has been   *)
(* undone it holds exactly the most recent min(n, 100) of the n executed   *)
(* actions in execution order; and once every retained entry has been      *)
(* undone, a further undo() changes nothing.                               *)
C6_LogBound ==
    /\ Len(history) <= 100
    /\ ~undone => history = Suffix(executed, Min(Len(executed), 100))
    /\ (undone /\ Len(history) = 0) => undo(Mgr) = Mgr

C6_Witness ==
    /\ Len(executed) > 100
    /\ lastOp = "undoNoop"
    /\ Len(history) = 0
    /\ Len(future) = 100

(* C7: a batch whose callback dispatched k >= 1 actions notifies every     *)
(* subscriber exactly once, with the final state.                          *)
C7_BatchNotifiesOnce ==
    [][(lastOp' = "batchClose" /\ Len(batchedActions) >= 1)
          => \A cb \in subscribers : notified'[cb] = <<state'>>]_vars

(* C8: the actions dispatched inside a batch stay buffered, in dispatch    *)
(* order, until the callback returns, and then they are the last entries   *)
(* of the log, one entry each and in that order; an undo() right after the *)
(* batch removes only the last of them.                                    *)
C8_BatchedActionsAreLogged ==
    [][/\ (depth > 0 /\ Len(batchedActions) > 0) =>
             \/ IsPrefix(batchedActions, batchedActions')
             \/ /\ lastOp' = "batchClose"
                /\ Len(history') >= Len(batchedActions)
                /\ Suffix(history', Len(batchedActions)) = batchedActions
       /\ (lastOp = "batchClose" /\ preState # <<>> /\ lastOp' = "undo") =>
             /\ history' = Front(history)
             /\ future' = <<Last(history)>>
             /\ state' = preState[1]]_vars

(* C9: every dispatched action is applied exactly once, in the order of    *)
(* the dispatch calls: a dispatch made while no batch callback runs is     *)
(* executed before it returns, and a buffered action leaves the buffer     *)
(* only by being executed, in its turn, when its batch closes.             *)
C9_DispatchOrder ==
    [][/\ (lastOp' \in {"dispatch", "buffer"} /\ depth = 0) =>
             /\ lastOp' = "dispatch"
             /\ batchedActions' = <<>>
       /\ lastOp' = "dispatch" =>
             /\ history' = Append(history, Last(history'))
             /\ state' = reducer(state, Last(history'), state,
                                 idCounter + CallerIds(Last(history')))
       /\ Len(batchedActions) > 0 =>
             \/ IsPrefix(batchedActions, batchedActions')
             \/ /\ lastOp' = "batchClose"
                /\ history' = history \o batchedActions]_vars

(* C10: subscribe(cb) calls cb once with the current state; every state    *)
(* update after that (an executed action, undo, redo, a load) calls each   *)
(* subscribed callback once with the state the update produced, a batch    *)
(* close once per executed action; a callback that is not subscribed, or   *)
(* whose unsubscribe handle was called, is not called.                     *)
C10_SubscribersSeeEveryUpdate ==
    [][/\ lastOp' = "subscribe" =>
             \E cb \in Subs :
                /\ subscribers' = subscribers \cup {cb}
                /\ notified' = [c \in Subs |-> IF c = cb THEN <<state>> ELSE <<>>]
       /\ lastOp' \in {"dispatch", "undo", "redo", "loaded"} =>
             notified' = [c \in Subs |-> IF c \in subscribers THEN <<state'>> ELSE <<>>]
       /\ lastOp' = "batchClose" =>
             \A c \in Subs :
                IF c \in subscribers
                THEN /\ Len(notified'[c]) = Len(batchedActions)
                     /\ Len(batchedActions) > 0 => Last(notified'[c]) = state'
                ELSE notified'[c] = <<>>
       /\ lastOp' \in {"buffer", "undoNoop", "redoNoop", "loadNothing", "loadFailed",
                       "batchOpen", "loadState"} =>
             notified' = NoneNotified
       /\ lastOp' = "unsubscribe" =>
             \E cb \in subscribers :
                /\ subscribers' = subscribers \ {cb}
                /\ notified' = NoneNotified
       /\ \A c \in Subs : (c \notin subscribers /\ c \notin subscribers') =>
             notified'[c] = <<>>]_vars

C10_Witness ==
    /\ lastOp = "undo"
    /\ subscribers = {"cb1"}
    /\ notified["cb1"] = <<state>>
    /\ notified["cb2"] = <<>>
    /\ state # createInitialState(NoPartial)

(* C11: the reducer is deterministic: two calls with the same (state,      *)
(* action) give equal states, the id and the defaulted fields of a bar     *)
(* added by ADD_BAR included.  The second call runs after the first, so it *)
(* draws its ids after the ids the first call drew.                        *)
C11_ReducerDeterministic ==
    \A a \in Requests(state, idCounter) :
        reducer(state, a, state, idCounter)
            = reducer(state, a, state, idCounter + IdsDrawn(a))

(* C12: after SET_UNIT_BAR(X) and then SET_UNIT_BAR(Y), X and Y the ids of *)
(* two distinct bars of the collection, exactly one bar has isUnitBar set, *)
(* that bar is Y, and unitBarId = Y.                                       *)
C12_SecondUnitBarWins ==
    [][(/\ lastOp = "dispatch" /\ lastOp' = "dispatch"
        /\ Len(history) >= 1
        /\ history' = Append(history, Last(history'))
        /\ Last(history).type = "SET_UNIT_BAR"
        /\ Last(history').type = "SET_UNIT_BAR"
        /\ Last(history).payload.id # Last(history').payload.id
        /\ {Last(history).payload.id, Last(history').payload.id} \subseteq BarIds(state))
       => LET Y == Last(history').payload.id
              unit == {i \in 1..Len(state'.bars) : state'.bars[i].isUnitBar}
          IN /\ Cardinality(unit) = 1
             /\ \A i \in unit : state'.bars[i].id = Y
             /\ state'.unitBarId = Y]_vars

C12_Witness ==
    /\ lastOp = "dispatch"
    /\ Len(history) >= 2
    /\ history[Len(history) - 1].type = "SET_UNIT_BAR"
    /\ Last(history).type = "SET_UNIT_BAR"
    /\ history[Len(history) - 1].payload.id # Last(history).payload.id
    /\ {history[Len(history) - 1].payload.id, Last(history).payload.id} \subseteq BarIds(state)
    /\ preState # <<>>
    /\ preState[1].unitBarId = history[Len(history) - 1].payload.id
    /\ state.unitBarId = Last(history).payload.id

(* C13: in every state reached through dispatched actions, undo and redo,  *)
(* at most one bar of the collection has isUnitBar set.                    *)
C13_AtMostOneUnitBar ==
    Cardinality({i \in 1..Len(state.bars) : state.bars[i].isUnitBar}) <= 1

(* C14: in every reachable state selectedBarIds is exactly the set of ids  *)
(* of the bars whose isSelected flag is set.                               *)
C14_SelectionConsistent ==
    {state.selectedBarIds[i] : i \in 1..Len(state.selectedBarIds)}
        = {state.bars[i].id : i \in {j \in 1..Len(state.bars) : state.bars[j].isSelected}}

(* C15: in every reachable state the ids of the bars are pairwise          *)
(* distinct, and a bar that remains in the collection keeps its id: a      *)
(* dispatch, undo or redo whose action neither adds nor removes a bar      *)
(* leaves the sequence of bar ids as it was.                               *)
C15_IdsUniqueAndStable ==
    [][LET ids(s) == [i \in 1..Len(s.bars) |-> s.bars[i].id]
           keepsBars(a) == a.type \notin {"ADD_BAR", "REMOVE_BAR", "JOIN_BARS"}
       IN /\ Cardinality(BarIds(state')) = Len(state'.bars)
          /\ (lastOp' \in {"dispatch", "redo"} /\ keepsBars(Last(history')))
                => ids(state') = ids(state)
          /\ (lastOp' = "undo" /\ keepsBars(Last(history)))
                => ids(state') = ids(state)]_vars

(* C16: a dispatched REMOVE_BAR, MODIFY_BAR, SPLIT_BAR or SET_UNIT_BAR     *)
(* whose id is the id of no bar of the collection leaves the application   *)
(* state as it was before the dispatch.                                    *)
C16_MissingIdIsNoOp ==
    [][LET a == Last(history')
           target == IF a.type = "SPLIT_BAR" THEN a.payload.barId ELSE a.payload.id
       IN (/\ lastOp' = "dispatch"
           /\ a.type \in {"REMOVE_BAR", "MODIFY_BAR", "SPLIT_BAR", "SET_UNIT_BAR"}
           /\ target \notin BarIds(state))
          => state' = state]_vars

(* C17: a move event (a touch move, or a move of the pressed mouse) while   *)
(* exactly one pointer is active, with deltaX and deltaY the pointer's     *)
(* offset from its down position, emits nothing if                         *)
(* |deltaX| and |deltaY| are both below 10, and otherwise exactly one      *)
(* intent: a vertical split at the current point if |deltaY|/|deltaX| > 2, *)
(* else a horizontal split there if |deltaX|/|deltaY| > 2, else a drag     *)
(* carrying (deltaX, deltaY).                                              *)
C17_SinglePointerMove ==
    [][(/\ Len(activeTouches) = 1
        /\ \/ lastOp' = "touchmove"
           \/ lastOp' = "mousemove" /\ MapHas(activeTouches, -1))
          => LET touch == activeTouches'[1]
                 deltaX == touch.currentX - touch.startX
                 deltaY == touch.currentY - touch.startY
             IN emitted' =
                  IF Abs(deltaX) < 10 /\ Abs(deltaY) < 10 THEN <<>>
                  ELSE IF RatioAbove2(deltaY, deltaX)
                  THEN <<[kind |-> "split", x |-> touch.currentX, y |-> touch.currentY,
                          isVertical |-> TRUE]>>
                  ELSE IF RatioAbove2(deltaX, deltaY)
                  THEN <<[kind |-> "split", x |-> touch.currentX, y |-> touch.currentY,
                          isVertical |-> FALSE]>>
                  ELSE <<[kind |-> "drag", deltaX |-> deltaX, deltaY |-> deltaY]>>]_vars

(* C17 as amended: the same, with nothing emitted if |deltaX| and |deltaY| *)
(* are both at most 10 (the dead zone includes the threshold).             *)
C17_SinglePointerMoveAmended ==
    [][(/\ Len(activeTouches) = 1
        /\ \/ lastOp' = "touchmove"
           \/ lastOp' = "mousemove" /\ MapHas(activeTouches, -1))
          => LET touch == activeTouches'[1]
                 deltaX == touch.currentX - touch.startX
                 deltaY == touch.currentY - touch.startY
             IN emitted' =
                  IF Abs(deltaX) <= 10 /\ Abs(deltaY) <= 10 THEN <<>>
                  ELSE IF RatioAbove2(deltaY, deltaX)
                  THEN <<[kind |-> "split", x |-> touch.currentX, y |-> touch.currentY,
                          isVertical |-> TRUE]>>
                  ELSE IF RatioAbove2(deltaX, deltaY)
                  THEN <<[kind |-> "split", x |-> touch.currentX, y |-> touch.currentY,
                          isVertical |-> FALSE]>>
                  ELSE <<[kind |-> "drag", deltaX |-> deltaX, deltaY |-> deltaY]>>]_vars

C17_Witness ==
    /\ lastOp = "mousemove"
    /\ Len(activeTouches) = 1
    /\ Abs(activeTouches[1].currentX - activeTouches[1].startX) = 10
    /\ Abs(activeTouches[1].currentY - activeTouches[1].startY) < 10
    /\ emitted = <<>>

(* C18: the lift of a tracked pointer (the end of a touch, or the release  *)
(* of the pressed mouse) emits a select intent at the lift coordinates if  *)
(* less than 300 ms have passed since the pointer's down event and the     *)
(* lift is less than 10 px away from the down position, and emits nothing  *)
(* otherwise.                                                              *)
C18_TapOnPointerUp ==
    [][/\ \A e \in MoveEvents({1}) :
            (TouchEnd(e) /\ MapHas(activeTouches, e[1].identifier))
            => LET down == MapGet(activeTouches, e[1].identifier)
               IN emitted' =
                    IF /\ now - down.startTime < 300
                       /\ getDistanceBetweenPoints(down.startX, down.startY,
                                                   e[1].clientX, e[1].clientY) < 10 * 10
                    THEN <<[kind |-> "select", x |-> e[1].clientX, y |-> e[1].clientY]>>
                    ELSE <<>>
       /\ \A p \in MovePoints :
            (MouseUp(p) /\ MapHas(activeTouches, -1))
            => LET down == MapGet(activeTouches, -1)
               IN emitted' =
                    IF /\ now - down.startTime < 300
                       /\ getDistanceBetweenPoints(down.startX, down.startY,
                                                   p[1], p[2]) < 10 * 10
                    THEN <<[kind |-> "select", x |-> p[1], y |-> p[2]]>>
                    ELSE <<>>]_vars

(* C19: a move event that arrives while two pointers are active emits no   *)
(* drag and no split intent.                                               *)
C19_NoSingleEmissionWithTwoPointers ==
    [][(/\ Len(activeTouches) = 2
        /\ lastOp' \in {"touchmove", "mousemove"})
          => \A i \in 1..Len(emitted') : emitted'[i].kind \notin {"drag", "split"}]_vars

(* C20: a move or up event that names a pointer the active map does not    *)
(* hold (a touch identifier that is not tracked, or the mouse while it is  *)
(* not pressed) leaves the active map as it was and emits no intent.       *)
C20_UntrackedPointerIsNoOp ==
    [][/\ \A e \in MoveEvents({1}) :
            (/\ ~MapHas(activeTouches, e[1].identifier)
             /\ TouchMove(e) \/ TouchEnd(e))
            => activeTouches' = activeTouches /\ emitted' = <<>>
       /\ \A p \in MovePoints :
            (/\ ~MapHas(activeTouches, -1)
             /\ MouseMove(p) \/ MouseUp(p))
            => activeTouches' = activeTouches /\ emitted' = <<>>]_vars

(* C21: a lifted pointer leaves the active map whether or not the lift was *)
(* a tap, and when a lift empties the active map the gesture state holds   *)
(* no startDistance and no startAngle, scale 1 and rotation 0.             *)
C21_LiftClearsGesture ==
    [][/\ \A e \in MoveEvents({1}) :
            (TouchEnd(e) /\ MapHas(activeTouches, e[1].identifier))
            => ~MapHas(activeTouches', e[1].identifier)
       /\ \A p \in MovePoints :
            (MouseUp(p) /\ MapHas(activeTouches, -1)) => ~MapHas(activeTouches', -1)
       /\ (/\ lastOp' \in {"touchend", "mouseup"}
           /\ Len(activeTouches) > 0
           /\ Len(activeTouches') = 0)
          => /\ gestureState'.startDistance = <<>>
             /\ gestureState'.startAngle = <<>>
             /\ gestureState'.scale = [num |-> 1, den |-> 1]
             /\ gestureState'.rotation.from = gestureState'.rotation.to]_vars

(* C22: every state update leaves exactly one debounced save pending, due  *)
(* 1 s after that update, in place of the one pending before; so a run of  *)
(* updates less than 1 s apart is followed by one debounced save, 1 s      *)
(* after its last update.  The debounced save runs when it is due, stores  *)
(* the state and leaves no debounced save pending.  The 30 s interval save *)
(* runs at its own due times, neither moved by updates or debounced saves  *)
(* nor touching the pending debounced save.                                *)
C22_DebouncedSaveCoalesces ==
    [][/\ lastOp' \in {"dispatch", "undo", "redo", "loaded"} =>
            /\ saveTimeouts' = {now + 1000}
            /\ UNCHANGED autoSaveInterval
       /\ lastOp' = "debouncedSave" =>
            /\ saveTimeouts = {now}
            /\ saveTimeouts' = {}
            /\ SaveTimeout("ok") => localStore' = <<state>>
            /\ UNCHANGED autoSaveInterval
       /\ lastOp' = "intervalSave" =>
            /\ autoSaveInterval = <<now>>
            /\ autoSaveInterval' = <<now + 30000>>
            /\ AutoSave("ok") => localStore' = <<state>>
            /\ UNCHANGED saveTimeouts
       /\ lastOp' \notin {"dispatch", "undo", "redo", "loaded", "debouncedSave"} =>
            UNCHANGED saveTimeouts]_vars

C22_Witness ==
    /\ lastOp = "debouncedSave"
    /\ now = 1500
    /\ history = <<>>
    /\ Len(future) = 1
    /\ future[1].timestamp = 0
    /\ localStore = <<state>>

(* C23: a saveState() or loadState() in which storage throws or rejects    *)
(* leaves the state, the log and the future buffer as they were, and a     *)
(* dispatch that follows it is executed: its action is appended to the     *)
(* log and the state becomes the reducer's result.                         *)
C23_StorageFailureIsHarmless ==
    [][/\ lastOp' \in {"saveFailed", "loadFailed"} => UNCHANGED <<state, history, future>>
       /\ (lastOp \in {"saveFailed", "loadFailed"} /\ lastOp' = "dispatch") =>
            /\ history' = Append(history, Last(history'))
            /\ future' = <<>>
            /\ state' = reducer(state, Last(history'), state, idCounter)]_vars

C23_Witness ==
    /\ lastOp = "loadFailed"
    /\ localStore # <<>>
    /\ localStore # <<state>>
    /\ Len(history) > 0

C25_SplitsCoverTheBar ==
    [][\A p \in Points, isVertical \in BOOLEAN :
          (BarSplit(p, isVertical) /\ findBarAt(Mgr, p[1], p[2]) # <<>>) =>
             LET bar == findBarAt(Mgr, p[1], p[2])[1]
                 splits == Last(history').payload.splits
                 relativeX == p[1] - bar.x
                 relativeY == p[2] - bar.y
             IN /\ Len(history') = Len(history) + 1
                /\ Last(history').type = "SPLIT_BAR"
                /\ Last(history').payload.barId = bar.id
                /\ Len(splits) = 2
                /\ \A k \in 1..Len(state'.bars) :
                      state'.bars[k].id = bar.id => state'.bars[k].splits = splits
                /\ splits[1].x = 0 /\ splits[1].y = 0
                /\ splits[1].width >= 0 /\ splits[1].height >= 0
                /\ splits[2].width >= 0 /\ splits[2].height >= 0
                /\ IF isVertical
                   THEN /\ splits[1].width = relativeX
                        /\ splits[2].width = bar.width - relativeX
                        /\ splits[2].x = splits[1].x + splits[1].width
                        /\ splits[2].x + splits[2].width = bar.width
                        /\ splits[2].y = 0
                        /\ splits[1].height = bar.height
                        /\ splits[2].height = bar.height
                   ELSE /\ splits[1].height = relativeY
                        /\ splits[2].height = bar.height - relativeY
                        /\ splits[2].y = splits[1].y + splits[1].height
                        /\ splits[2].y + splits[2].height = bar.height
                        /\ splits[2].x = 0
                        /\ splits[1].width = bar.width
                        /\ splits[2].width = bar.width]_vars

C25_Witness ==
    /\ lastOp = "barSplit"
    /\ Len(history) > 0
    /\ Last(history).type = "SPLIT_BAR"
    /\ Last(history).payload.barId = 102
    /\ Last(history).payload.splits[1].width = 47
    /\ Last(history).payload.splits[2].width = 53

(* C26: in the assembled application an intent of the classifier reaches   *)
(* the manager: a select intent at a point inside a bar appends a          *)
(* MODIFY_BAR that toggles that bar's isSelected, a split intent inside a  *)
(* bar appends a SPLIT_BAR for it, and a drag intent appends one           *)
(* MODIFY_BAR for each selected bar.                                       *)
C26_IntentsReachTheManager ==
    [][(lastOp' \in {"touchstart", "touchmove", "touchend"} /\ Len(emitted') = 1) =>
          LET intent == emitted'[1]
              hit == IF intent.kind \in {"select", "split"}
                     THEN findBarAt(Mgr, intent.x, intent.y) ELSE <<>>
          IN /\ (intent.kind = "select" /\ hit # <<>>) =>
                   /\ Len(history') = Len(history) + 1
                   /\ Last(history').type = "MODIFY_BAR"
                   /\ Last(history').payload.id = hit[1].id
                   /\ Last(history').payload.changes.isSelected = ~hit[1].isSelected
             /\ (intent.kind = "split" /\ hit # <<>>) =>
                   /\ Len(history') = Len(history) + 1
                   /\ Last(history').type = "SPLIT_BAR"
                   /\ Last(history').payload.barId = hit[1].id
             /\ intent.kind = "drag" =>
                   /\ Len(history') = Len(history) + Len(getSelectedBars(Mgr))
                   /\ \A k \in Len(history) + 1..Len(history') :
                         history'[k].type = "MODIFY_BAR"]_vars

(* C27: whenever exactly two pointers are active, startDistance and        *)
(* startAngle are the distance and the angle between those two pointers as *)
(* they were when the number of active pointers became two: they are taken *)
(* in the step in which the number becomes two, from whichever number, and *)
(* are kept while it stays two.                                            *)
C27_SnapshotWhenCountBecomesTwo ==
    [][/\ (Len(activeTouches') = 2 /\ Len(activeTouches) # 2) =>
            /\ gestureState'.startDistance =
                  <<getDistanceBetweenPoints(
                        activeTouches'[1].currentX, activeTouches'[1].currentY,
                        activeTouches'[2].currentX, activeTouches'[2].currentY)>>
            /\ gestureState'.startAngle =
                  <<getAngleBetweenPoints(
                        activeTouches'[1].currentX, activeTouches'[1].currentY,
                        activeTouches'[2].currentX, activeTouches'[2].currentY)>>
       /\ (Len(activeTouches') = 2 /\ Len(activeTouches) = 2) =>
            /\ gestureState'.startDistance = gestureState.startDistance
            /\ gestureState'.startAngle = gestureState.startAngle]_vars

(* C28: the scale of every gesture state lies in [0.5, 2]; after a move    *)
(* with two pointers active it is currentDistance / startDistance clamped  *)
(* to that interval, and it keeps its previous value when startDistance is *)
(* 0.  (Distances are compared by their squares, the scale by its square.) *)
C28_ScaleIsClamped ==
    [][/\ gestureState'.scale.den > 0
       /\ gestureState'.scale.den <= 4 * gestureState'.scale.num
       /\ gestureState'.scale.num <= 4 * gestureState'.scale.den
       /\ (lastOp' = "touchmove" /\ Len(activeTouches') = 2) =>
            LET current == (activeTouches'[2].currentX - activeTouches'[1].currentX) ^ 2
                           + (activeTouches'[2].currentY - activeTouches'[1].currentY) ^ 2
                start == gestureState.startDistance
                scale == gestureState'.scale
            IN /\ start = <<0>> => scale = gestureState.scale
               /\ start \notin {<<>>, <<0>>} =>
                    IF 4 * current < start[1] THEN scale = [num |-> 1, den |-> 4]
                    ELSE IF current > 4 * start[1] THEN scale = [num |-> 4, den |-> 1]
                    ELSE scale.num * start[1] = scale.den * current]_vars

C28_Witness ==
    /\ lastOp = "touchmove"
    /\ Len(activeTouches) = 2
    /\ gestureState.startDistance = <<9>>
    /\ gestureState.scale = [num |-> 4, den |-> 1]

(* C29: REMOVE_BAR of a bar of the collection removes that bar and no      *)
(* other, removes its id from selectedBarIds, clears unitBarId if it was   *)
(* the unit bar, and leaves the other bars, their order, the other         *)
(* selected ids, a unitBarId of another bar, currentTool and settings as   *)
(* they were.                                                              *)
C29_RemoveBarFrame ==
    [][\A i \in 1..Len(state.bars) :
          BarsDispatch(Act("REMOVE_BAR", [id |-> state.bars[i].id])) =>
             LET id == state.bars[i].id
                 kept == [k \in 1..Len(state.bars) - 1 |->
                             IF k < i THEN state.bars[k] ELSE state.bars[k + 1]]
             IN /\ state'.bars = kept
                /\ \A k \in 1..Len(state'.selectedBarIds) : state'.selectedBarIds[k] # id
                /\ state'.selectedBarIds = SelectSeq(state.selectedBarIds, LAMBDA x : x # id)
                /\ state'.unitBarId = IF state.unitBarId = id THEN Undefined
                                      ELSE state.unitBarId
                /\ state'.currentTool = state.currentTool
                /\ state'.settings = state.settings
                /\ state'.version = state.version]_vars

C29_Witness ==
    /\ lastOp = "dispatch"
    /\ Len(history) > 0
    /\ Last(history).type = "REMOVE_BAR"
    /\ Last(history).payload.id = 101
    /\ preState # <<>>
    /\ preState[1].unitBarId = 101
    /\ preState[1].selectedBarIds = <<101, 102>>
    /\ state.unitBarId = Undefined
    /\ state.selectedBarIds = <<102>>
    /\ Len(state.bars) = 1
    /\ state.bars[1].id = 102

(* C30: in every reachable state, if unitBarId is defined then the         *)
(* collection holds a bar with that id and that bar has isUnitBar = TRUE.  *)
C30_UnitBarIdNamesTheUnitBar ==
    state.unitBarId # Undefined =>
        \E i \in 1..Len(state.bars) :
            state.bars[i].id = state.unitBarId /\ state.bars[i].isUnitBar

(* C31: every action executed outside a batch window, also one the reducer *)
(* passes through (an unknown type, an id of no bar), is appended to the   *)
(* log, empties the future buffer and is delivered once to every           *)
(* subscriber; the actions undone before it can no longer be redone.       *)
C31_NoOpDispatchIsLogged ==
    [][\A a \in AddRequests \cup NoOpRequests :
          Dispatch(a) =>
             /\ history' = Append(history, Merge(a, [timestamp |-> now]))
             /\ future' = <<>>
             /\ \A cb \in Subs :
                   notified'[cb] = IF cb \in subscribers THEN <<state'>> ELSE <<>>
             /\ a \in NoOpRequests => state' = state]_vars

C31_Witness ==
    /\ lastOp = "dispatch"
    /\ Len(history) > 0
    /\ Last(history).type = "RESET"
    /\ preFuture > 0
    /\ future = <<>>
    /\ preState = <<state>>
    /\ subscribers = Subs
    /\ \A cb \in Subs : notified[cb] = <<state>>

(* C32: once more than 100 actions have been executed, undo() sets the     *)
(* state to the replay of the retained log entries, minus the undone one,  *)
(* over the default initial state: the bar or the settings of the evicted  *)
(* first action are in the state before the undo, absent after it, and     *)
(* still absent after a redo().  (Every retained entry is CHANGE_TOOL      *)
(* "split" here.)                                                          *)
C32_EvictedActionsAreLostOnUndo ==
    [][Len(executed) > 100 =>
          /\ lastOp' = "undo" =>
                state' = [defaultState EXCEPT
                             !.currentTool = IF Len(history') > 0 THEN "split" ELSE "bar"]
          /\ (lastOp' = "dispatch" /\ executed[1].type = "ADD_BAR") =>
                Len(state'.bars) = 1
          /\ (lastOp' = "dispatch" /\ executed[1].type = "UPDATE_SETTINGS") =>
                state'.settings.defaultBarHeight = 80
          /\ lastOp' = "redo" =>
                state' = [defaultState EXCEPT !.currentTool = "split"]]_vars

C32_Witness ==
    /\ Len(executed) = 102
    /\ executed[1].type = "ADD_BAR"
    /\ undone
    /\ lastOp = "redo"
    /\ state.bars = <<>>
    /\ Len(history) = 100

(* C33: in the replay of undo(), an ADD_BAR whose payload omits height and *)
(* color takes them from the settings of the state before the undo, not    *)
(* from the settings of the state being replayed: after the undo every     *)
(* such bar has the default height and color of the pre-undo settings,     *)
(* also when the undone action is the UPDATE_SETTINGS that set them, while *)
(* the settings of the state are those of the remaining log.               *)
C33_ReplayReadsLiveSettings ==
    [][lastOp' = "undo" =>
          /\ \A i \in 1..Len(state'.bars) :
                /\ state'.bars[i].height = state.settings.defaultBarHeight
                /\ state'.bars[i].color = state.settings.defaultBarColor
          /\ \A key \in {"defaultBarHeight", "defaultBarColor"} :
                LET sets == {j \in 1..Len(history') :
                                /\ history'[j].type = "UPDATE_SETTINGS"
                                /\ key \in DOMAIN history'[j].payload}
                    last == CHOOSE j \in sets : \A k \in sets : k <= j
                IN state'.settings[key] = IF sets = {} THEN defaultState.settings[key]
                                          ELSE history'[last].payload[key]]_vars

C33_Witness ==
    /\ lastOp = "undo"
    /\ Len(history) = 1
    /\ history[1].type = "ADD_BAR"
    /\ Len(future) = 1
    /\ future[1].type = "UPDATE_SETTINGS"
    /\ state.settings.defaultBarHeight = 60
    /\ Len(state.bars) = 1
    /\ state.bars[1].height = 80

(* C34: a loadState() that finds a stored snapshot makes it the state and  *)
(* notifies the subscribers, and leaves the log and the future buffer as   *)
(* they were; an undo() that follows it and has an entry to undo computes  *)
(* the state from the default initial state and the remaining log, so the  *)
(* loaded bar and tool are gone.                                           *)
C34_LoadKeepsTheLog ==
    [][/\ lastOp' = "loaded" =>
            /\ state' = localStore[1]
            /\ UNCHANGED <<history, future>>
            /\ \A cb \in subscribers : notified'[cb] = <<state'>>
       /\ (lastOp = "loaded" /\ lastOp' = "undo") =>
            /\ \A i \in 1..Len(state'.bars) : state'.bars[i].id # 101
            /\ state'.currentTool # "join"
            /\ Len(state'.bars)
                  = Cardinality({j \in 1..Len(history') : history'[j].type = "ADD_BAR"})]_vars

C34_Witness ==
    /\ lastOp = "loaded"
    /\ state = SavedSnapshot
    /\ Len(history) = 1
    /\ history[1].type = "ADD_BAR"
    /\ Len(future) = 1
    /\ subscribers = {"cb1"}
    /\ notified["cb1"] = <<SavedSnapshot>>

(* C35: when an action is dispatched between the start of loadState() and  *)
(* its completion, the completing load makes the stored snapshot the       *)
(* state: the action stays in the log, and the bar it added or the tool it *)
(* chose is no longer in the state.                                        *)
C35_LoadOverwritesDispatches ==
    [][(loadPending /\ lastOp = "dispatch" /\ lastOp' = "loaded") =>
          /\ history' = history
          /\ Len(history') > 0
          /\ state' = localStore[1]
          /\ Last(history).type = "ADD_BAR" =>
                /\ Last(state.bars).id # 101
                /\ \A i \in 1..Len(state'.bars) : state'.bars[i].id # Last(state.bars).id
          /\ Last(history).type = "CHANGE_TOOL" =>
                /\ state.currentTool = Last(history).payload.tool
                /\ state'.currentTool # Last(history).payload.tool]_vars

C35_Witness ==
    /\ lastOp = "loaded"
    /\ ~loadPending
    /\ Len(history) = 2
    /\ history[1].type = "ADD_BAR"
    /\ history[2].type = "CHANGE_TOOL"
    /\ state.currentTool = "join"
    /\ Len(state.bars) = 1
    /\ state.bars[1].id = 101

(* C36: a batch() called inside another batch's callback empties the       *)
(* shared buffer without executing or logging what the outer callback had  *)
(* dispatched, executes only its own buffered actions when it returns, and *)
(* closes the window: what the outer callback dispatches afterwards is     *)
(* executed at once instead of being buffered.                             *)
C36_NestedBatchResetsTheWindow ==
    [][/\ (lastOp' = "batchOpen" /\ depth >= 1) =>
            /\ batchedActions' = <<>>
            /\ UNCHANGED <<state, history, future>>
       /\ (lastOp' = "batchClose" /\ depth >= 2) =>
            /\ ~batchOperation'
            /\ batchedActions' = <<>>
            /\ history' = history \o batchedActions
       /\ (depth >= 1 /\ depth' = depth /\ lastOp = "batchClose"
             /\ lastOp' \in {"dispatch", "buffer"}) =>
            /\ lastOp' = "dispatch"
            /\ Len(history') = Len(history) + 1
            /\ batchedActions' = <<>>
            /\ state' = reducer(state, Last(history'), state, idCounter)]_vars

C36_Witness ==
    /\ depth = 1
    /\ lastOp = "dispatch"
    /\ ~batchOperation
    /\ batchedActions = <<>>
    /\ Len(history) = 2

(* C37: when the batch callback throws, the window is left as it was,      *)
(* open, and the buffered actions are not executed; every later dispatch   *)
(* outside any batch is buffered: the state, the log and the future buffer *)
(* stay as they are and no subscriber is called; the next batch() call     *)
(* discards the buffered actions.                                          *)
C37_ThrowLeavesTheWindowOpen ==
    [][/\ lastOp' = "batchThrow" =>
            /\ UNCHANGED <<state, history, future, batchedActions>>
            /\ batchOperation => batchOperation'
            /\ notified' = NoneNotified
       /\ (depth = 0 /\ batchOperation /\ lastOp' \in {"dispatch", "buffer"}) =>
            /\ lastOp' = "buffer"
            /\ Len(batchedActions') = Len(batchedActions) + 1
            /\ SubSeq(batchedActions', 1, Len(batchedActions)) = batchedActions
            /\ batchOperation'
            /\ UNCHANGED <<state, history, future>>
            /\ notified' = NoneNotified
       /\ (depth = 0 /\ batchOperation /\ lastOp' = "batchOpen") =>
            /\ batchedActions' = <<>>
            /\ UNCHANGED <<state, history, future>>]_vars

C37_Witness ==
    /\ depth = 0
    /\ batchOperation
    /\ lastOp = "buffer"
    /\ Len(batchedActions) = 2
    /\ history = <<>>
    /\ state = ctorState
    /\ subscribers = {"cb1"}
    /\ notified = NoneNotified

(* C38: a drag intent the drag handler receives appends one MODIFY_BAR per *)
(* selected bar, in order, each setting the bar's position to its current  *)
(* position plus the intent's delta, and leaves no batch window open; the  *)
(* bars move by the delta and nothing else changes.  The delta is the      *)
(* pointer's offset from its down position, which a move does not rebase,  *)
(* so the displacements of successive intents of one gesture add up.       *)
C38_DragAddsTheDeltaFromDown ==
    [][(/\ lastOp' = "touchmove"
        /\ Len(emitted') = 1
        /\ emitted'[1].kind = "drag") =>
          LET d == emitted'[1]
              sel == getSelectedBars(Mgr)
              n == Len(history)
          IN /\ Len(activeTouches) = 1 /\ Len(activeTouches') = 1
             /\ activeTouches'[1].startX = activeTouches[1].startX
             /\ activeTouches'[1].startY = activeTouches[1].startY
             /\ d.deltaX = activeTouches'[1].currentX - activeTouches'[1].startX
             /\ d.deltaY = activeTouches'[1].currentY - activeTouches'[1].startY
             /\ Len(history') = n + Len(sel)
             /\ SubSeq(history', 1, n) = history
             /\ \A i \in 1..Len(sel) :
                   /\ history'[n + i].type = "MODIFY_BAR"
                   /\ history'[n + i].payload =
                        [id |-> sel[i].id,
                         changes |-> [x |-> sel[i].x + d.deltaX, y |-> sel[i].y + d.deltaY]]
             /\ ~batchOperation' /\ batchedActions' = <<>>
             /\ Len(state'.bars) = Len(state.bars)
             /\ \A i \in 1..Len(state.bars) :
                   state'.bars[i] =
                     IF state.bars[i].isSelected
                     THEN [state.bars[i] EXCEPT !.x = @ + d.deltaX, !.y = @ + d.deltaY]
                     ELSE state.bars[i]
             /\ state'.settings = state.settings
             /\ state'.unitBarId = state.unitBarId]_vars

(* two drag intents of one gesture, the pointer now 20 right of its down   *)
(* position and the selected bar 35 right of where it was                  *)
C38_Witness ==
    /\ lastOp = "touchmove"
    /\ Len(history) = 2
    /\ history[1].type = "MODIFY_BAR" /\ history[2].type = "MODIFY_BAR"
    /\ Len(activeTouches) = 1
    /\ activeTouches[1].currentX - activeTouches[1].startX = 20
    /\ Len(state.bars) >= 1
    /\ state.bars[1].isSelected
    /\ state.bars[1].x = 15 + 20
    /\ state.bars[1].y = 15 + 15

(* C39: a focus move on a non-empty bar sequence leaves focusedBarIndex in *)
(* 0 .. bars.length - 1, whatever happened to the bars since the previous  *)
(* move; next at the last bar and previous at the first bar stay there.    *)
C39_FocusStaysOnABar ==
    [][\A direction \in Directions :
          (KeyMoveFocus(direction) /\ Len(state.bars) > 0) =>
             /\ focusedBarIndex' \in 0..(Len(state.bars) - 1)
             /\ (direction = "next" /\ focusedBarIndex = Len(state.bars) - 1) =>
                    focusedBarIndex' = focusedBarIndex
             /\ (direction = "previous" /\ focusedBarIndex = 0) =>
                    focusedBarIndex' = 0]_vars

(* C40: destroy() empties the subscriber set and takes the interval from   *)
(* the event loop, and touches neither the state nor the timers of         *)
(* scheduleSave.  From then on the interval save never runs; a dispatch    *)
(* delivers to no callback while none subscribes again and still replaces  *)
(* the pending save timer by one a second later; a pending save timer      *)
(* stays until it runs or a dispatch replaces it, and when it runs it      *)
(* writes the state of that moment.                                        *)
C40_DestroyLeavesTheSaveTimer ==
    [][/\ lastOp' = "destroy" =>
            /\ subscribers' = {}
            /\ autoSaveInterval' = <<>>
            /\ UNCHANGED <<state, history, future, saveTimeouts, timeout, localStore>>
       /\ autoSaveInterval = <<>> =>
            /\ autoSaveInterval' = <<>>
            /\ lastOp' # "intervalSave"
            /\ (lastOp' = "dispatch" /\ subscribers = {}) => notified' = NoneNotified
            /\ lastOp' = "dispatch" =>
                  /\ saveTimeouts' = {now + 1000}
                  /\ timeout' = <<now + 1000>>
            /\ saveTimeouts' # saveTimeouts => lastOp' \in {"dispatch", "debouncedSave"}
            /\ (lastOp' = "debouncedSave" /\ localStore' # localStore) =>
                  localStore' = <<state>>]_vars

(* the save scheduled by the dispatch at time 0 has run at its due time    *)
(* with the interval cleared and no subscriber left                        *)
C40_Witness ==
    /\ lastOp = "debouncedSave"
    /\ autoSaveInterval = <<>>
    /\ subscribers = {}
    /\ now = 1000
    /\ Len(history) = 1
    /\ history[1].timestamp = 0
    /\ saveTimeouts = {}
    /\ localStore = <<state>>
====
